---- MODULE Spec2Model ----
(***************************************************************************)
(* Verification model of the Wedding-Face-Forward processing engine.       *)
(*                                                                         *)
(* The engine is modelled as several state machines over one set of        *)
(* variables, one specification per component group:                      *)
(*   SpecPhase   - PhaseCoordinator, worker_loop, the supervisor's idle    *)
(*                 flush and the upload drainer (backend/app/phase.py,     *)
(*                 worker.py, upload_queue.py)                             *)
(*   SpecIngest  - watchdog handler, directory scanner, start-up scan and  *)
(*                 resume of pending photos (watcher.py, worker.main)      *)
(*   SpecCluster - create_face / assign_person / update_face_person of N   *)
(*                 workers, process kill and start-up recovery             *)
(*                 (worker.py, cluster.py, db.py)                          *)
(*   SpecEnroll  - enroll_user, rename_person_folder, update_upload_paths  *)
(*                 (enrollment.py, db.py)                                  *)
(*   SpecRoute   - route_photo and the completion of a photo               *)
(*                 (router.py, worker.py)                                  *)
(*   SpecRecover - the start-up recovery of db.py statement by statement,  *)
(*                 with the workers, the periodic sweep and kills          *)
(*   FairPhase   - SpecPhase with every thread taking its steps            *)
(*   SpecStartup - a start of the engine: scan, resume, workers, sweep     *)
(*   SpecWorker  - worker_loop around process_single_photo and its outcome *)
(*   SpecUpload  - the drain rounds of the UploadQueue thread and          *)
(*                 _upload_file (upload_queue.py, db.py, cloud.py)         *)
(*   SpecEnrollFail - SpecEnroll with the failures of rename_person_folder *)
(*                 and of the selfie copy (enrollment.py)                  *)
(*   SpecAdmin   - the workers with a request to the web server process,   *)
(*                 whose first get_db() runs the recovery (server.py)      *)
(*   SpecMerge   - merge_persons statement by statement (cluster.py)       *)
(*   SpecAssign  - one assign_person call on its own (cluster.py)          *)
(*   SpecShutdown - the shutdown signal, main()'s finally block, and the   *)
(*                 loops of the workers and of the drainer testing their   *)
(*                 events (worker.py, upload_queue.py)                     *)
(*   FairUpload  - SpecUpload with the UploadQueue thread taking its steps *)
(*   SpecRestart, FairRestart - a start of the engine with an upload job   *)
(*                 left in 'uploading' (worker.py, upload_queue.py)        *)
(*   SpecCloud   - threads calling CloudManager.ensure_folder_path on one  *)
(*                 CloudManager (cloud.py)                                 *)
(*   SpecCoord   - SpecPhase with the upload loop calling                  *)
(*                 on_uploads_complete as phase.py prescribes              *)
(*   SpecNoUpload, FairNoUpload - the engine whose UploadQueue thread was  *)
(*                 not started (upload_queue.py start)                     *)
(*   SpecRouteRename - route_photo of the workers beside enroll_user       *)
(*   SpecDrainRename - the drain of the upload queue beside enroll_user    *)
(* A specification leaves the variables of the other groups unchanged.     *)
(***************************************************************************)
EXTENDS Integers, Sequences, FiniteSets, TLC

(***************************************************************************)
(* Bounds of the model.                                                    *)
(***************************************************************************)
\* worker_count of the pool (config.worker_count)
NWorkers == 2
\* PROCESS_BATCH_SIZE of the coordinator
BatchSize == 2
\* photos that arrive on the job queue in one run
MaxPhotos == 3

\* files that show up in Incoming/ and distinct contents they can have
MaxFiles == 2
MaxHashes == 2

Workers == 1..NWorkers
Paths == 1..MaxFiles
Hashes == 1..MaxHashes
\* the watchdog observer thread, the DirectoryScanner thread and the main
\* thread (Watcher.start's immediate scan, then the resume of pending photos)
IngestThreads == {"handler", "scanner", "main"}
\* the processes that call enroll_user: the web server (frontend/server.py)
\* and the command line tool (enroll_cli.py)
Enrollers == {"server", "cli"}
NoFile == [path |-> 0, hash |-> 0, id |-> 0]

VARIABLES
    \* ---- PhaseCoordinator (phase.py) ----
    phase,                      \* _phase
    photos_processed_in_batch,  \* _photos_processed_in_batch
    total_batches_completed,    \* _total_batches_completed
    processing_allowed,         \* _processing_allowed (threading.Event)
    uploading_allowed,          \* _uploading_allowed (threading.Event)
    \* ---- worker pool / supervisor / drainer (worker.py, upload_queue.py) ----
    job_queue,                  \* Queue of photo ids
    arrived,                    \* photos put on the job queue so far
    wpc,                        \* position of each worker in worker_loop
    wjob,                       \* job held by each worker (0: none)
    active,                     \* ProgressTracker._active
    spc,                        \* position of the supervisor's main loop
    supActive,                  \* status["active"] read by the supervisor
    dpc,                        \* position of UploadQueueManager._worker_loop
    uq_pending,                 \* upload jobs not yet completed
    dbatch                      \* jobs of the fetched round still to upload

VARIABLES
    \* ---- drop zone and photos table (watcher.py, db.py) ----
    incoming,                   \* Incoming/: path -> content hash (0: no file)
    photos,                     \* photos table, the row id is the index
    ipc,                        \* position of each ingest thread
    icur,                       \* the file an ingest thread is working on
    todo,                       \* files an ingest thread has still to visit
    resume_todo,                \* pending photos main() has still to re-queue
    put_log                     \* per photo id: job_queue.put calls so far

VARIABLES
    \* ---- faces and persons tables, the workers' processing (worker.py, cluster.py) ----
    faces,                      \* faces table: id -> row
    persons,                    \* persons table: id -> row
    next_face_id,               \* AUTOINCREMENT of faces.id
    next_person_id,             \* AUTOINCREMENT of persons.id
    cw,                         \* per worker: position and locals of process_single_photo
    crashes,                    \* times the process was killed
    updated_for,                \* per photo: Persons written while processing it
    rec                         \* position and locals of the start-up recovery

VARIABLES
    \* ---- enrollment, the People/ tree and the upload_queue table ----
    enrollments,                \* enrollments table, in insertion order
    folders,                    \* names of the folders under People/
    uploads,                    \* upload_queue table, the row id is the index
    en                          \* per caller of enroll_user: position and locals

VARIABLES
    \* ---- routing into the People/ tree (router.py) ----
    files,                      \* paths of the files under People/
    rw                          \* per worker: position and locals of route_photo

VARIABLES
    \* ---- the drain of the upload_queue table (upload_queue.py) ----
    dr                          \* position and locals of _worker_loop / _upload_file

VARIABLES
    mg                          \* position and locals of merge_persons (cluster.py)

VARIABLES
    srv                         \* the web server process: its _db singleton and its requests (server.py)

VARIABLES
    ap                          \* an assign_person call on its own: arguments, store before, result (cluster.py)

VARIABLES
    sd                          \* the shutdown: shutdown_event, _stop_event, the position of main() in its finally block (worker.py, upload_queue.py)

VARIABLES
    cl                          \* CloudManager: Drive folders, _folder_cache, _path_locks, the callers of ensure_folder_path (cloud.py)

phaseVars == <<phase, photos_processed_in_batch, total_batches_completed,
               processing_allowed, uploading_allowed, job_queue, arrived,
               wpc, wjob, active, spc, supActive, dpc, uq_pending, dbatch>>

ingestVars == <<incoming, photos, ipc, icur, todo, resume_todo, put_log>>

clusterVars == <<faces, persons, next_face_id, next_person_id, cw, crashes,
                 updated_for, rec>>

coordVars == <<phase, photos_processed_in_batch, total_batches_completed,
               processing_allowed, uploading_allowed, arrived,
               wpc, wjob, active, spc, supActive, dpc, uq_pending, dbatch>>

enrollVars == <<enrollments, folders, uploads, en>>

\* what the actions of one specification leave alone
routeVars == <<files, rw>>

notPhaseVars == <<ingestVars, clusterVars, enrollVars, routeVars, dr, mg, srv, ap, sd, cl>>
notIngestVars == <<coordVars, clusterVars, enrollVars, routeVars, dr, mg, srv, ap, sd, cl>>
notClusterVars == <<coordVars, todo, icur, enrollVars, routeVars, dr, mg, srv, ap, sd, cl>>
notEnrollVars == <<phaseVars, ingestVars, faces, next_face_id, next_person_id,
                   cw, crashes, updated_for, rec, rw, dr, mg, srv, ap, sd, cl>>
notRouteVars == <<phaseVars, incoming, ipc, icur, todo, resume_todo, put_log,
                  clusterVars, enrollments, en, dr, mg, srv, ap, sd, cl>>
notUploadVars == <<phaseVars, ingestVars, faces, persons, next_face_id,
                   next_person_id, cw, updated_for, rec, enrollments, folders,
                   en, rw, mg, srv, ap, sd, cl>>

vars == <<phaseVars, ingestVars, clusterVars, enrollVars, routeVars, dr, mg, srv, ap, sd, cl>>

(***************************************************************************)
(* PhaseCoordinator                                                        *)
(***************************************************************************)
PROCESSING == "processing"
UPLOADING == "uploading"

\* the UploadQueue thread before it runs; gone: the jobs whose missing file
\* it has dealt with
IdleDrainer == [pc |-> "start", pending |-> <<>>, failed |-> {}, list |-> "",
                cur |-> 0, result |-> "", gone |-> {}, aged |-> {},
                snap |-> <<>>]

\* the ingest group at rest, for the specifications that do not use it
IngestIdle ==
    /\ incoming = [f \in Paths |-> 0]
    /\ photos = <<>>
    /\ ipc = [t \in IngestThreads |-> "idle"]
    /\ icur = [t \in IngestThreads |-> NoFile]
    /\ todo = [t \in IngestThreads |-> {}]
    /\ resume_todo = <<>>
    /\ put_log = <<>>

\* the coordinator, the worker pool and the drainer at rest, for the
\* specifications that do not use them
CoordIdle ==
    /\ phase = "processing"
    /\ photos_processed_in_batch = 0
    /\ total_batches_completed = 0
    /\ processing_allowed = TRUE
    /\ uploading_allowed = FALSE
    /\ arrived = 0
    /\ wpc = [w \in Workers |-> "loop"]
    /\ wjob = [w \in Workers |-> 0]
    /\ active = 0
    /\ spc = "sleep"
    /\ supActive = 0
    /\ dpc = "wait"
    /\ uq_pending = 0
    /\ dbatch = 0

\* a worker that is not processing a photo
IdleWorker == [pc |-> "idle", photo |-> 0, todo |-> <<>>, face |-> 0,
               seen |-> <<>>, person |-> 0, num |-> 0, overdue |-> FALSE]

\* a caller that is not inside enroll_user
IdleEnroller == [pc |-> "idle", user_name |-> <<>>, selfie |-> <<>>, person |-> 0,
                 old |-> <<>>, new |-> <<>>, result |-> "", reported |-> <<>>,
                 calls |-> 0]

\* the enrollment group at rest, for the specifications that do not use it
EnrollIdle ==
    /\ enrollments = <<>>
    /\ folders = {}
    /\ uploads = <<>>
    /\ en = [e \in Enrollers |-> IdleEnroller]

\* a worker that is not inside route_photo
IdleRouter == [pc |-> "idle", photo |-> 0, persons |-> {}, bucket |-> "",
               name |-> <<>>, routed |-> <<>>]

\* the routing group at rest, for the specifications that do not use it
RouteIdle ==
    /\ files = {}
    /\ rw = [w \in Workers |-> IdleRouter]

\* no merge_persons call is running; before: the persons and faces tables
\* when the call began
IdleMerge == [pc |-> "idle", keep |-> 0, remove |-> 0, total |-> 0,
              centroid |-> <<>>, before |-> <<>>]

\* no shutdown signal yet: shutdown_event and _stop_event are clear, main() is
\* in its loop; at_signal is the upload_queue table and the job in flight
\* as they were when the signal came, finished the photos a worker has
\* finished since
NotShuttingDown ==
    [shutdown_event |-> FALSE, stop_event |-> FALSE, mpc |-> "loop",
     uploads_at_signal |-> <<>>, cur_at_signal |-> 0,
     finished |-> [w \in Workers |-> 0]]

\* callers of ensure_folder_path
NCloudThreads == 2
CloudThreads == 1..NCloudThreads

\* a thread that is not inside ensure_folder_path
IdleCaller == [pc |-> "idle", parts |-> <<>>, idx |-> 0, calls |-> 0]

\* a CloudManager after __init__ with an empty Drive root: no folder, an empty
\* _folder_cache, no path lock held (held: pairs of lock key and holder);
\* created lists the paths of the folders made, in order
NoCloudCalls ==
    [created |-> <<>>, cache |-> {}, held |-> {},
     t |-> [c \in CloudThreads |-> IdleCaller]]

\* no assign_person call of the sequential model has been made
NoAssignCall == [pc |-> "idle", embedding |-> <<>>, threshold |-> 0,
                 before |-> <<>>, result |-> 0]

\* the web server process before its first get_db(): _db is None
ServerNotStarted == [db |-> FALSE, calls |-> 0]

\* the start-up recovery when it is not running
RecIdle == [pc |-> "idle", ids |-> {}, affected |-> {}, kills |-> 0,
            expect |-> <<>>]

\* the cluster group at rest, for the specifications that do not use it
ClusterIdle ==
    /\ faces = <<>>
    /\ persons = <<>>
    /\ next_face_id = 1
    /\ next_person_id = 1
    /\ cw = [w \in Workers |-> IdleWorker]
    /\ crashes = 0
    /\ updated_for = <<>>
    /\ rec = RecIdle

\* PhaseCoordinator.__init__
CoordinatorInit ==
    /\ phase = PROCESSING
    /\ photos_processed_in_batch = 0
    /\ total_batches_completed = 0
    /\ processing_allowed = TRUE
    /\ uploading_allowed = FALSE

\* can_process: _processing_allowed.wait(timeout) returns whether the event is set
can_process == processing_allowed

\* a should_upload that does not wait for the event
should_upload_unguarded == TRUE

\* should_upload: _uploading_allowed.wait(timeout)
should_upload == uploading_allowed

\* a _switch_to_uploading without the early return under the lock
SwitchUnguarded == TRUE

\* _switch_to_uploading, the part under the lock: TRUE when the caller goes on
\* to change the events
SwitchLocked == phase # UPLOADING

PhaseInit ==
    /\ CoordinatorInit
    /\ job_queue = <<>>
    /\ arrived = 0
    /\ wpc = [w \in Workers |-> "loop"]
    /\ wjob = [w \in Workers |-> 0]
    /\ active = 0
    /\ spc = "sleep"
    /\ supActive = 0
    /\ dpc = "wait"
    /\ uq_pending = 0
    /\ dbatch = 0
    /\ IngestIdle
    /\ ClusterIdle
    /\ EnrollIdle
    /\ RouteIdle
    /\ dr = IdleDrainer
    /\ cl = NoCloudCalls
    /\ sd = NotShuttingDown
    /\ ap = NoAssignCall
    /\ srv = ServerNotStarted
    /\ mg = IdleMerge


(***************************************************************************)
(* Coordinator operations, each the part of the method that runs as one    *)
(* step (a critical section of _lock, or one Event call).                  *)
(***************************************************************************)
\* on_photo_processed, under the lock: the counter grows by one
on_photo_processed_lock ==
    photos_processed_in_batch' = photos_processed_in_batch + 1

\* _switch_to_uploading, under the lock: returns early when already
\* UPLOADING, else sets the phase
switch_to_uploading_lock == phase' = UPLOADING

\* _switch_to_uploading: self._processing_allowed.clear()
switch_to_uploading_clear == processing_allowed' = FALSE

\* _switch_to_uploading: self._uploading_allowed.set()
switch_to_uploading_set == uploading_allowed' = TRUE

\* flush_if_needed, under the lock: TRUE when the flush goes on to switch
flush_if_needed_lock == phase = PROCESSING /\ photos_processed_in_batch # 0

\* on_uploads_complete, under the lock
on_uploads_complete_lock ==
    /\ total_batches_completed' = total_batches_completed + 1
    /\ photos_processed_in_batch' = 0
    /\ phase' = PROCESSING

\* on_uploads_complete: self._uploading_allowed.clear()
on_uploads_complete_clear == uploading_allowed' = FALSE

\* on_uploads_complete: self._processing_allowed.set()
on_uploads_complete_set == processing_allowed' = TRUE

(***************************************************************************)
(* The watcher puts a new photo on the job queue (progress.on_enqueue).    *)
(***************************************************************************)
Arrive ==
    /\ arrived < MaxPhotos
    /\ arrived' = arrived + 1
    /\ job_queue' = Append(job_queue, arrived + 1)
    /\ UNCHANGED notPhaseVars
    /\ UNCHANGED <<phase, photos_processed_in_batch, total_batches_completed,
                   processing_allowed, uploading_allowed, wpc, wjob, active,
                   spc, supActive, dpc, uq_pending, dbatch>>

(***************************************************************************)
(* worker_loop                                                             *)
(***************************************************************************)
\* coordinator.can_process(timeout=1.0) returned True
WCanProcess(w) ==
    /\ wpc[w] = "loop"
    /\ can_process
    /\ wpc' = [wpc EXCEPT ![w] = "get"]
    /\ UNCHANGED notPhaseVars
    /\ UNCHANGED <<phase, photos_processed_in_batch, total_batches_completed,
                   processing_allowed, uploading_allowed, job_queue, arrived,
                   wjob, active, spc, supActive, dpc, uq_pending, dbatch>>

\* job_queue.get(timeout=1.0) returned a job
WGet(w) ==
    /\ wpc[w] = "get"
    /\ job_queue # <<>>
    /\ wjob' = [wjob EXCEPT ![w] = Head(job_queue)]
    /\ job_queue' = Tail(job_queue)
    /\ wpc' = [wpc EXCEPT ![w] = "start"]
    /\ UNCHANGED notPhaseVars
    /\ UNCHANGED <<phase, photos_processed_in_batch, total_batches_completed,
                   processing_allowed, uploading_allowed, arrived, active,
                   spc, supActive, dpc, uq_pending, dbatch>>

\* job_queue.get raised Empty after its timeout
WGetEmpty(w) ==
    /\ wpc[w] = "get"
    /\ job_queue = <<>>
    /\ wpc' = [wpc EXCEPT ![w] = "loop"]
    /\ UNCHANGED notPhaseVars
    /\ UNCHANGED <<phase, photos_processed_in_batch, total_batches_completed,
                   processing_allowed, uploading_allowed, job_queue, arrived,
                   wjob, active, spc, supActive, dpc, uq_pending, dbatch>>

\* process_single_photo begins: progress.on_start()
WStart(w) ==
    /\ wpc[w] = "start"
    /\ active' = active + 1
    /\ wpc' = [wpc EXCEPT ![w] = "processing"]
    /\ UNCHANGED notPhaseVars
    /\ UNCHANGED <<phase, photos_processed_in_batch, total_batches_completed,
                   processing_allowed, uploading_allowed, job_queue, arrived,
                   wjob, spc, supActive, dpc, uq_pending, dbatch>>

\* process_single_photo ends: the routed files (none for a photo without
\* faces or a failed one) are enqueued for upload, then progress.on_complete()
WFinish(w) ==
    /\ wpc[w] = "processing"
    /\ \E k \in 0..1 : uq_pending' = uq_pending + k
    /\ active' = active - 1
    /\ wpc' = [wpc EXCEPT ![w] = "on_processed"]
    /\ UNCHANGED notPhaseVars
    /\ UNCHANGED <<phase, photos_processed_in_batch, total_batches_completed,
                   processing_allowed, uploading_allowed, job_queue, arrived,
                   wjob, spc, supActive, dpc, dbatch>>

\* coordinator.on_photo_processed(): the counter, then the batch test
WOnProcessed(w) ==
    /\ wpc[w] = "on_processed"
    /\ on_photo_processed_lock
    /\ wpc' = [wpc EXCEPT ![w] =
                 IF photos_processed_in_batch' >= BatchSize THEN "switch"
                                                            ELSE "loop"]
    /\ wjob' = [wjob EXCEPT ![w] = 0]
    /\ UNCHANGED notPhaseVars
    /\ UNCHANGED <<phase, total_batches_completed, processing_allowed,
                   uploading_allowed, job_queue, arrived, active, spc,
                   supActive, dpc, uq_pending, dbatch>>

\* _switch_to_uploading called by a worker: the locked part
WSwitchLock(w) ==
    /\ wpc[w] = "switch"
    /\ wpc' = [wpc EXCEPT ![w] = IF SwitchLocked THEN "sw_clear" ELSE "loop"]
    /\ switch_to_uploading_lock
    /\ UNCHANGED notPhaseVars
    /\ UNCHANGED <<photos_processed_in_batch, total_batches_completed,
                   processing_allowed, uploading_allowed, job_queue, arrived,
                   wjob, active, spc, supActive, dpc, uq_pending, dbatch>>

WSwitchClear(w) ==
    /\ wpc[w] = "sw_clear"
    /\ switch_to_uploading_clear
    /\ wpc' = [wpc EXCEPT ![w] = "sw_set"]
    /\ UNCHANGED notPhaseVars
    /\ UNCHANGED <<phase, photos_processed_in_batch, total_batches_completed,
                   uploading_allowed, job_queue, arrived, wjob, active, spc,
                   supActive, dpc, uq_pending, dbatch>>

WSwitchSet(w) ==
    /\ wpc[w] = "sw_set"
    /\ switch_to_uploading_set
    /\ wpc' = [wpc EXCEPT ![w] = "loop"]
    /\ UNCHANGED notPhaseVars
    /\ UNCHANGED <<phase, photos_processed_in_batch, total_batches_completed,
                   processing_allowed, job_queue, arrived, wjob, active, spc,
                   supActive, dpc, uq_pending, dbatch>>

(***************************************************************************)
(* The supervisor's main loop (worker.main): the idle flush                *)
(***************************************************************************)
\* status = progress.get_status()
SupReadStatus ==
    /\ spc = "sleep"
    /\ supActive' = active
    /\ spc' = "read_q"
    /\ UNCHANGED notPhaseVars
    /\ UNCHANGED <<phase, photos_processed_in_batch, total_batches_completed,
                   processing_allowed, uploading_allowed, job_queue, arrived,
                   wpc, wjob, active, dpc, uq_pending, dbatch>>

\* queue_size = job_queue.qsize(); if status["active"] == 0 and queue_size == 0
SupReadQueue ==
    /\ spc = "read_q"
    /\ spc' = IF supActive = 0 /\ Len(job_queue) = 0 THEN "check" ELSE "sleep"
    /\ supActive' = 0
    /\ UNCHANGED notPhaseVars
    /\ UNCHANGED <<phase, photos_processed_in_batch, total_batches_completed,
                   processing_allowed, uploading_allowed, job_queue, arrived,
                   wpc, wjob, active, dpc, uq_pending, dbatch>>

\* if coordinator.photos_in_current_batch > 0
SupCheckBatch ==
    /\ spc = "check"
    /\ spc' = IF photos_processed_in_batch > 0 THEN "flush" ELSE "sleep"
    /\ UNCHANGED notPhaseVars
    /\ UNCHANGED <<phase, photos_processed_in_batch, total_batches_completed,
                   processing_allowed, uploading_allowed, job_queue, arrived,
                   wpc, wjob, active, supActive, dpc, uq_pending, dbatch>>

\* coordinator.flush_if_needed(): the locked test
SupFlush ==
    /\ spc = "flush"
    /\ spc' = IF flush_if_needed_lock THEN "switch" ELSE "sleep"
    /\ UNCHANGED notPhaseVars
    /\ UNCHANGED <<phase, photos_processed_in_batch, total_batches_completed,
                   processing_allowed, uploading_allowed, job_queue, arrived,
                   wpc, wjob, active, supActive, dpc, uq_pending, dbatch>>

SupSwitchLock ==
    /\ spc = "switch"
    /\ spc' = IF SwitchLocked THEN "sw_clear" ELSE "sleep"
    /\ switch_to_uploading_lock
    /\ UNCHANGED notPhaseVars
    /\ UNCHANGED <<photos_processed_in_batch, total_batches_completed,
                   processing_allowed, uploading_allowed, job_queue, arrived,
                   wpc, wjob, active, supActive, dpc, uq_pending, dbatch>>

SupSwitchClear ==
    /\ spc = "sw_clear"
    /\ switch_to_uploading_clear
    /\ spc' = "sw_set"
    /\ UNCHANGED notPhaseVars
    /\ UNCHANGED <<phase, photos_processed_in_batch, total_batches_completed,
                   uploading_allowed, job_queue, arrived, wpc, wjob, active,
                   supActive, dpc, uq_pending, dbatch>>

SupSwitchSet ==
    /\ spc = "sw_set"
    /\ switch_to_uploading_set
    /\ spc' = "sleep"
    /\ UNCHANGED notPhaseVars
    /\ UNCHANGED <<phase, photos_processed_in_batch, total_batches_completed,
                   processing_allowed, job_queue, arrived, wpc, wjob, active,
                   supActive, dpc, uq_pending, dbatch>>

(***************************************************************************)
(* UploadQueueManager._worker_loop                                         *)
(***************************************************************************)
\* coordinator.should_upload(timeout=2.0) returned True: a drain turn begins
DShouldUpload ==
    /\ dpc = "wait"
    /\ should_upload
    /\ dpc' = "drain"
    /\ UNCHANGED notPhaseVars
    /\ UNCHANGED <<phase, photos_processed_in_batch, total_batches_completed,
                   processing_allowed, uploading_allowed, job_queue, arrived,
                   wpc, wjob, active, spc, supActive, uq_pending, dbatch>>

\* one round of the drain loop: get_pending_uploads + get_failed_uploads;
\* nothing left ends the turn
DFetch ==
    /\ dpc = "drain"
    /\ dbatch' = uq_pending
    /\ dpc' = IF uq_pending = 0 THEN "complete" ELSE "upload"
    /\ UNCHANGED notPhaseVars
    /\ UNCHANGED <<phase, photos_processed_in_batch, total_batches_completed,
                   processing_allowed, uploading_allowed, job_queue, arrived,
                   wpc, wjob, active, spc, supActive, uq_pending>>

\* _upload_file: status 'uploading', then cloud.upload_file is entered
DUploadBegin ==
    /\ dpc = "upload"
    /\ dpc' = "in_upload"
    /\ UNCHANGED notPhaseVars
    /\ UNCHANGED <<phase, photos_processed_in_batch, total_batches_completed,
                   processing_allowed, uploading_allowed, job_queue, arrived,
                   wpc, wjob, active, spc, supActive, uq_pending, dbatch>>

\* cloud.upload_file returned: the job is settled (completed, or failed for
\* good) or stays for a later round (failed, retries left)
DUploadEnd ==
    /\ dpc = "in_upload"
    /\ \E settled \in BOOLEAN :
          uq_pending' = IF settled THEN uq_pending - 1 ELSE uq_pending
    /\ dbatch' = dbatch - 1
    /\ dpc' = IF dbatch = 1 THEN "drain" ELSE "upload"
    /\ UNCHANGED notPhaseVars
    /\ UNCHANGED <<phase, photos_processed_in_batch, total_batches_completed,
                   processing_allowed, uploading_allowed, job_queue, arrived,
                   wpc, wjob, active, spc, supActive>>

\* the drain loop is left: self.cloud._rebuild_service(reason="post-batch
\* refresh") raises TypeError, because CloudManager._rebuild_service(self)
\* takes no such argument; the except clause of the loop logs it and waits,
\* and coordinator.on_uploads_complete() on the next line is never reached
DRebuildRaises ==
    /\ dpc = "complete"
    /\ dpc' = "wait"
    /\ UNCHANGED notPhaseVars
    /\ UNCHANGED <<phase, photos_processed_in_batch, total_batches_completed,
                   processing_allowed, uploading_allowed, job_queue, arrived,
                   wpc, wjob, active, spc, supActive, uq_pending, dbatch>>

NextPhase ==
    \/ Arrive
    \/ \E w \in Workers : WCanProcess(w)
    \/ \E w \in Workers : WGet(w)
    \/ \E w \in Workers : WGetEmpty(w)
    \/ \E w \in Workers : WStart(w)
    \/ \E w \in Workers : WFinish(w)
    \/ \E w \in Workers : WOnProcessed(w)
    \/ \E w \in Workers : WSwitchLock(w)
    \/ \E w \in Workers : WSwitchClear(w)
    \/ \E w \in Workers : WSwitchSet(w)
    \/ SupReadStatus
    \/ SupReadQueue
    \/ SupCheckBatch
    \/ SupFlush
    \/ SupSwitchLock
    \/ SupSwitchClear
    \/ SupSwitchSet
    \/ DShouldUpload
    \/ DFetch
    \/ DUploadBegin
    \/ DUploadEnd
    \/ DRebuildRaises

SpecPhase == PhaseInit /\ [][NextPhase]_vars

(***************************************************************************)
(* Claims about the phase coordination                                     *)
(***************************************************************************)
\* C1 (phase exclusion): no worker calls on_photo_processed while the drainer
\* is inside cloud.upload_file.
C1_PhaseExclusion ==
    [][(\E w \in Workers : wpc[w] = "on_processed" /\ wpc'[w] # "on_processed")
          => dpc # "in_upload"]_vars

\* C2: every job_queue.get that returns a job happens while the phase is
\* PROCESSING.
C2_GetOnlyInProcessing ==
    [][(\E w \in Workers : wpc[w] = "get" /\ wpc'[w] = "start")
          => phase = PROCESSING]_vars

\* C3: the drainer is inside a drain turn (from should_upload returning true
\* up to the end of its drain loop) only while the phase is UPLOADING,
\* so no drain turn begins during PROCESSING.
C3_DrainOnlyInUploading ==
    dpc \in {"drain", "upload", "in_upload", "complete"} => phase = UPLOADING

\* C3 witness: a drain turn has begun and fetched work
C3_Witness == dpc = "in_upload" /\ phase = UPLOADING /\ photos_processed_in_batch > 0

\* C16: when the drainer has left the drain loop of an upload turn, its next
\* step is the call of on_uploads_complete, made with no upload job left
\* that is pending or failed with a retry left; the call sets the in-batch
\* count to 0, adds 1 to the batches completed and sets the phase to
\* PROCESSING.
C16_CompleteWhenDrained ==
    [][(dpc = "complete" /\ dpc' # "complete")
          => /\ uq_pending = 0
             /\ photos_processed_in_batch' = 0
             /\ total_batches_completed' = total_batches_completed + 1
             /\ phase' = PROCESSING]_vars


\* threads inside _switch_to_uploading after its locked part
Switching ==
    {w \in Workers : wpc[w] \in {"sw_clear", "sw_set"}}
        \cup (IF spc \in {"sw_clear", "sw_set"} THEN {0} ELSE {})

\* workers holding a dequeued job for which on_photo_processed has not run
HoldingJob == {w \in Workers : wjob[w] # 0}

\* C29: k on_photo_processed calls, however interleaved, raise the in-batch
\* count by exactly k; reaching batch_size moves the coordinator from
\* PROCESSING to UPLOADING once per batch (one caller alone changes the
\* events), after which workers are blocked and the drainer is signalled.
C29_CountAndSwitchOnce ==
    /\ photos_processed_in_batch =
          arrived - Len(job_queue) - Cardinality(HoldingJob)
    /\ Cardinality(Switching) <= 1
    /\ (photos_processed_in_batch >= BatchSize
            /\ \A w \in Workers : wpc[w] # "switch")
          => phase = UPLOADING
    /\ (phase = UPLOADING /\ Switching = {})
          => ~processing_allowed /\ uploading_allowed

\* a second caller has reached batch_size after the switch and left the
\* events as the first set them
C29_Witness ==
    /\ photos_processed_in_batch > BatchSize
    /\ phase = UPLOADING
    /\ Switching = {}
    /\ \A w \in Workers : wpc[w] # "switch"
    /\ ~processing_allowed /\ uploading_allowed


\* C30: the supervisor calls flush_if_needed only when the job queue is
\* empty and no worker is busy: never while some worker holds a dequeued job
\* for which it has not yet called on_photo_processed.
C30_FlushOnlyWhenIdle ==
    spc = "flush" => HoldingJob = {}

(***************************************************************************)
(* Ingest: the drop zone, the photos table and the three threads that turn *)
(* a file into a Photo row and a job (watcher.py), then the resume of      *)
(* pending photos in main() (worker.py).                                    *)
(***************************************************************************)

\* a row of the photos table as create_photo inserts it (status DEFAULT 'pending')
PhotoRow(h, f) == [file_hash |-> h, original_path |-> f, status |-> "pending"]

NoPuts == [ingest |-> 0, resume |-> 0]

\* A fresh database, or one that a previous run left with a pending photo
\* whose file is still in Incoming/.
IngestInit ==
    /\ \E prev \in BOOLEAN :
         IF prev
         THEN /\ incoming = [f \in Paths |-> IF f = 1 THEN 1 ELSE 0]
              /\ photos = <<PhotoRow(1, 1)>>
              /\ put_log = <<NoPuts>>
         ELSE /\ incoming = [f \in Paths |-> 0]
              /\ photos = <<>>
              /\ put_log = <<>>
    /\ ipc = [t \in IngestThreads |-> IF t = "main" THEN "startup" ELSE "idle"]
    /\ icur = [t \in IngestThreads |-> NoFile]
    /\ todo = [t \in IngestThreads |-> {}]
    /\ resume_todo = <<>>
    /\ job_queue = <<>>
    /\ CoordIdle
    /\ ClusterIdle
    /\ EnrollIdle
    /\ RouteIdle
    /\ dr = IdleDrainer
    /\ cl = NoCloudCalls
    /\ sd = NotShuttingDown
    /\ ap = NoAssignCall
    /\ srv = ServerNotStarted
    /\ mg = IdleMerge

\* Database.photo_exists: SELECT 1 FROM photos WHERE file_hash = ?
photo_exists(h) == \E i \in DOMAIN photos : photos[i].file_hash = h

\* photos.file_hash TEXT UNIQUE NOT NULL: the INSERT is refused when a row
\* with that hash is already there
UniqueHashDropped(h) == TRUE
UniqueHashHolds(h) == ~ \E i \in DOMAIN photos : photos[i].file_hash = h

\* Database.get_pending_photos: ids of the pending rows, oldest first
RECURSIVE PendingFrom(_)
PendingFrom(i) ==
    IF i > Len(photos) THEN <<>>
    ELSE IF photos[i].status = "pending"
         THEN <<i>> \o PendingFrom(i + 1)
         ELSE PendingFrom(i + 1)
get_pending_photos == PendingFrom(1)

\* a file is copied into Incoming/ (the photographer's camera, a file copy);
\* file names and contents are interchangeable, so the files and the
\* contents come into use in the order of their numbers
Drop(f, h) ==
    /\ incoming[f] = 0
    /\ \A g \in Paths : g < f => incoming[g] # 0
    /\ \A k \in Hashes : k < h => \E g \in Paths : incoming[g] = k
    /\ incoming' = [incoming EXCEPT ![f] = h]
    /\ UNCHANGED <<photos, ipc, icur, todo, resume_todo, put_log, job_queue>>
    /\ UNCHANGED notIngestVars

\* on_created / on_moved / on_modified: the observer thread calls
\* _enqueue_file for one path
HandlerEvent(f) ==
    /\ ipc["handler"] = "idle"
    /\ incoming[f] # 0
    /\ todo' = [todo EXCEPT !["handler"] = {f}]
    /\ ipc' = [ipc EXCEPT !["handler"] = "iter"]
    /\ UNCHANGED <<incoming, photos, icur, resume_todo, put_log, job_queue>>
    /\ UNCHANGED notIngestVars

\* _scan_directory begins: DirectoryScanner.run on its own thread, and
\* Watcher.start's immediate scan on the main thread
ScanBegin(t) ==
    /\ \/ t = "scanner" /\ ipc[t] = "idle"
       \/ t = "main" /\ ipc[t] = "startup"
    /\ todo' = [todo EXCEPT ![t] = {f \in Paths : incoming[f] # 0}]
    /\ ipc' = [ipc EXCEPT ![t] = "iter"]
    /\ UNCHANGED <<incoming, photos, icur, resume_todo, put_log, job_queue>>
    /\ UNCHANGED notIngestVars

\* next file of the iteration, compute_file_hash
IngestNext(t) ==
    /\ ipc[t] = "iter"
    /\ todo[t] # {}
    /\ \E f \in todo[t] :
         /\ todo' = [todo EXCEPT ![t] = todo[t] \ {f}]
         /\ icur' = [icur EXCEPT ![t] = [path |-> f, hash |-> incoming[f], id |-> 0]]
    /\ ipc' = [ipc EXCEPT ![t] = "exists"]
    /\ UNCHANGED <<incoming, photos, resume_todo, put_log, job_queue>>
    /\ UNCHANGED notIngestVars

\* the iteration is over: the handler and the scanner wait for the next
\* event or interval, the main thread goes on to the resume
IngestDone(t) ==
    /\ ipc[t] = "iter"
    /\ todo[t] = {}
    /\ ipc' = [ipc EXCEPT ![t] = IF t = "main" THEN "resume" ELSE "idle"]
    /\ icur' = [icur EXCEPT ![t] = NoFile]
    /\ UNCHANGED <<incoming, photos, todo, resume_todo, put_log, job_queue>>
    /\ UNCHANGED notIngestVars

\* if db.photo_exists(file_hash): skip
IngestExists(t) ==
    /\ ipc[t] = "exists"
    /\ ipc' = [ipc EXCEPT ![t] = IF photo_exists(icur[t].hash) THEN "iter" ELSE "create"]
    /\ UNCHANGED <<incoming, photos, icur, todo, resume_todo, put_log, job_queue>>
    /\ UNCHANGED notIngestVars

\* photo_id = db.create_photo(file_hash, path): the row is inserted, or the
\* INSERT raises and the except clause of the caller takes over
IngestCreate(t) ==
    /\ ipc[t] = "create"
    /\ IF UniqueHashHolds(icur[t].hash)
       THEN /\ photos' = Append(photos, PhotoRow(icur[t].hash, icur[t].path))
            /\ put_log' = Append(put_log, NoPuts)
            /\ icur' = [icur EXCEPT ![t].id = Len(photos) + 1]
            /\ ipc' = [ipc EXCEPT ![t] = "put"]
       ELSE /\ ipc' = [ipc EXCEPT ![t] = "dup_error"]
            /\ UNCHANGED <<photos, put_log, icur>>
    /\ UNCHANGED <<incoming, todo, resume_todo, job_queue>>
    /\ UNCHANGED notIngestVars

\* self.job_queue.put((photo_id, file_path, file_hash))
IngestPut(t) ==
    /\ ipc[t] = "put"
    /\ job_queue' = Append(job_queue, icur[t].id)
    /\ put_log' = [put_log EXCEPT ![icur[t].id].ingest = @ + 1]
    /\ ipc' = [ipc EXCEPT ![t] = "iter"]
    /\ UNCHANGED <<incoming, photos, icur, todo, resume_todo>>
    /\ UNCHANGED notIngestVars

\* except Exception: the failure is logged and nothing is put on the queue
IngestDupError(t) ==
    /\ ipc[t] = "dup_error"
    /\ ipc' = [ipc EXCEPT ![t] = "iter"]
    /\ UNCHANGED <<incoming, photos, icur, todo, resume_todo, put_log, job_queue>>
    /\ UNCHANGED notIngestVars

\* main(): pending_photos = db.get_pending_photos(), after watcher.start()
\* has returned
ResumeRead ==
    /\ ipc["main"] = "resume"
    /\ resume_todo' = get_pending_photos
    /\ ipc' = [ipc EXCEPT !["main"] = "resume_put"]
    /\ UNCHANGED <<incoming, photos, icur, todo, put_log, job_queue>>
    /\ UNCHANGED notIngestVars

\* main(): for photo in pending_photos: if file_path.exists(): job_queue.put
ResumePut ==
    /\ ipc["main"] = "resume_put"
    /\ resume_todo # <<>>
    /\ LET id == Head(resume_todo) IN
         IF incoming[photos[id].original_path] # 0
         THEN /\ job_queue' = Append(job_queue, id)
              /\ put_log' = [put_log EXCEPT ![id].resume = @ + 1]
         ELSE UNCHANGED <<job_queue, put_log>>
    /\ resume_todo' = Tail(resume_todo)
    /\ UNCHANGED <<incoming, photos, ipc, icur, todo>>
    /\ UNCHANGED notIngestVars

\* main(): the resume is over, the upload queue and the workers are started
ResumeDone ==
    /\ ipc["main"] = "resume_put"
    /\ resume_todo = <<>>
    /\ ipc' = [ipc EXCEPT !["main"] = "running"]
    /\ UNCHANGED <<incoming, photos, icur, todo, resume_todo, put_log, job_queue>>
    /\ UNCHANGED notIngestVars

NextIngest ==
    \/ \E f \in Paths, h \in Hashes : Drop(f, h)
    \/ \E f \in Paths : HandlerEvent(f)
    \/ \E t \in {"scanner", "main"} : ScanBegin(t)
    \/ \E t \in IngestThreads : IngestNext(t)
    \/ \E t \in IngestThreads : IngestDone(t)
    \/ \E t \in IngestThreads : IngestExists(t)
    \/ \E t \in IngestThreads : IngestCreate(t)
    \/ \E t \in IngestThreads : IngestPut(t)
    \/ \E t \in IngestThreads : IngestDupError(t)
    \/ ResumeRead
    \/ ResumePut
    \/ ResumeDone

SpecIngest == IngestInit /\ [][NextIngest]_vars

\* job_queue.put calls made for the Photo rows of one content, by the
\* watcher and the scans
IngestPutsFor(h) ==
    Cardinality({i \in DOMAIN photos : photos[i].file_hash = h /\ put_log[i].ingest > 0})

\* C4: two files with the same bytes, seen by the event handler and by a scan
\* in any order or at once, give at most one Photo row per content; the thread
\* that loses the race fails on the duplicate hash and puts nothing on the
\* job queue, so the content is queued by at most one of them and once.
C4_HashDedup ==
    /\ \A i, j \in DOMAIN photos :
         photos[i].file_hash = photos[j].file_hash => i = j
    /\ \A h \in Hashes : IngestPutsFor(h) <= 1
    /\ \A i \in DOMAIN photos : put_log[i].ingest <= 1
    /\ \A t \in IngestThreads :
         ipc[t] = "dup_error" =>
            /\ photo_exists(icur[t].hash)
            /\ icur[t].id = 0

\* a thread lost the race: it found no row, then its INSERT was refused
C4_Witness ==
    \E t \in IngestThreads :
        /\ ipc[t] = "dup_error"
        /\ Cardinality({i \in DOMAIN photos : photos[i].file_hash = icur[t].hash}) = 1
        /\ \E u \in IngestThreads \ {t} : icur[u].hash = icur[t].hash /\ icur[u].path # icur[t].path

\* C5: within one run a photo id is put on the job queue at most once,
\* counting the puts of the watcher event, of the start-up and periodic
\* scans and of the resume of pending photos.
C5_PutAtMostOnce ==
    \A i \in DOMAIN photos : put_log[i].ingest + put_log[i].resume <= 1

(***************************************************************************)
(* Clustering: process_single_photo on each worker (worker.py),            *)
(* assign_person (cluster.py), the kill of the process and the start-up    *)
(* recovery (db.py).  Embeddings are unit vectors along an axis, one axis  *)
(* per real person, so that every norm, mean and distance is exact; the    *)
(* distances are held in tenths.                                           *)
(***************************************************************************)

\* photos waiting in the queue when the workers start
MaxClusterPhotos == 2
\* faces process_photo can find in one photo
MaxFacesPerPhoto == 1
\* kills of the process in one behaviour
MaxCrashes == 1
\* config.cluster_threshold, in tenths
ClusterThreshold10 == 6

\* Strings are sequences of symbols: a character, or a word that stands for
\* its characters.
DigitChar(d) == <<"0", "1", "2", "3", "4", "5", "6", "7", "8", "9">>[d + 1]
RECURSIVE Digits(_)
Digits(n) == IF n < 10 THEN <<DigitChar(n)>>
             ELSE Digits(n \div 10) \o <<DigitChar(n % 10)>>
RECURSIVE ZeroPad(_, _)
ZeroPad(str, width) == IF Len(str) >= width THEN str
                       ELSE ZeroPad(<<"0">> \o str, width)
\* f"Person_{next_num:03d}"
person_name(n) == <<"Person", "_">> \o ZeroPad(Digits(n), 3)

Embeddings == {<<1, 0>>, <<0, 1>>}
FaceLists == UNION {[1..n -> Embeddings] : n \in 0..MaxFacesPerPhoto}

Dot(a, b) == a[1] * b[1] + a[2] * b[2]
\* np.linalg.norm
Abs(x) == IF x < 0 THEN -x ELSE x
Norm(v) == CHOOSE n \in 0..(Abs(v[1]) + Abs(v[2])) : n * n = Dot(v, v)
\* v / norm when norm > 0
Normalize(v) == IF Norm(v) > 0 THEN [i \in 1..2 |-> v[i] \div Norm(v)] ELSE v

\* cluster.cosine_distance, in tenths
cosine_distance(a, b) ==
    IF Norm(a) = 0 \/ Norm(b) = 0 THEN 20
    ELSE LET similarity == (10 * Dot(a, b)) \div (Norm(a) * Norm(b))
             clipped == IF similarity > 10 THEN 10
                        ELSE IF similarity < -10 THEN -10 ELSE similarity
         IN  10 - clipped

\* find_nearest_person keeping the last of the Persons at the smallest distance
find_nearest_person_last(e, ps) ==
    IF DOMAIN ps = {} THEN 0
    ELSE CHOOSE p \in DOMAIN ps :
            \A q \in DOMAIN ps :
                \/ cosine_distance(e, ps[p].centroid) < cosine_distance(e, ps[q].centroid)
                \/ /\ cosine_distance(e, ps[p].centroid) = cosine_distance(e, ps[q].centroid)
                   /\ p >= q

\* cluster.find_nearest_person over the rows get_all_persons returned
\* (ORDER BY id): the first row at the least distance, 0 when there is none
find_nearest_person(e, ps) ==
    IF DOMAIN ps = {} THEN 0
    ELSE CHOOSE p \in DOMAIN ps :
            \A q \in DOMAIN ps :
                \/ cosine_distance(e, ps[p].centroid) < cosine_distance(e, ps[q].centroid)
                \/ /\ cosine_distance(e, ps[p].centroid) = cosine_distance(e, ps[q].centroid)
                   /\ p <= q

\* cluster.update_centroid: (old * n + e) / (n + 1), then to unit length;
\* the division by n + 1 does not change the direction
update_centroid(old, e, n) ==
    Normalize([i \in 1..2 |-> old[i] * n + e[i]])

\* Database.get_next_person_number: SELECT MAX(id) FROM persons, plus one
RECURSIVE MaxOf(_)
MaxOf(S) == IF S = {} THEN 0
            ELSE LET x == CHOOSE y \in S : TRUE
                     m == MaxOf(S \ {x})
                 IN  IF x > m THEN x ELSE m
get_next_person_number == MaxOf(DOMAIN persons) + 1

FacesOfPhotos(fs, ids) == {f \in DOMAIN fs : fs[f].photo_id \in ids}
FacesOfPerson(fs, p) == {f \in DOMAIN fs : fs[f].person_id = p}

RECURSIVE SumEmbeddings(_, _)
SumEmbeddings(fs, F) ==
    IF F = {} THEN <<0, 0>>
    ELSE LET f == CHOOSE g \in F : TRUE
             r == SumEmbeddings(fs, F \ {f})
         IN  [i \in 1..2 |-> fs[f].embedding[i] + r[i]]

\* np.mean(embeddings, axis=0), then to unit length
MeanCentroid(fs, p) == Normalize(SumEmbeddings(fs, FacesOfPerson(fs, p)))

\* Database._cleanup_orphaned_faces(photo_ids): the faces table afterwards
CleanupFaces(ids) ==
    [f \in DOMAIN faces \ FacesOfPhotos(faces, ids) |-> faces[f]]

\* Database._cleanup_orphaned_faces(photo_ids): the persons table afterwards.
\* Only the Persons that a Face row of these photos points to are looked at.
CleanupPersons(ids) ==
    LET affected == {faces[f].person_id : f \in FacesOfPhotos(faces, ids)} \ {0}
        left == CleanupFaces(ids)
        emptied == {p \in affected : FacesOfPerson(left, p) = {}}
    IN  IF FacesOfPhotos(faces, ids) = {} THEN persons
        ELSE [p \in DOMAIN persons \ emptied |->
                 IF p \in affected
                 THEN [persons[p] EXCEPT
                          !.centroid = MeanCentroid(left, p),
                          !.face_count = Cardinality(FacesOfPerson(left, p))]
                 ELSE persons[p]]

\* One photo was processed by an earlier run and gave the first Person;
\* MaxClusterPhotos more are pending and on the job queue.
ClusterInit ==
    /\ incoming = [f \in 1..(MaxClusterPhotos + 1) |-> f]
    /\ photos = [i \in 1..(MaxClusterPhotos + 1) |->
                    IF i = 1 THEN [PhotoRow(i, i) EXCEPT !.status = "completed"]
                    ELSE PhotoRow(i, i)]
    /\ put_log = [i \in 1..(MaxClusterPhotos + 1) |-> [ingest |-> 1, resume |-> 0]]
    /\ job_queue = [i \in 1..MaxClusterPhotos |-> i + 1]
    /\ ipc = [t \in IngestThreads |-> IF t = "main" THEN "running" ELSE "idle"]
    /\ icur = [t \in IngestThreads |-> NoFile]
    /\ todo = [t \in IngestThreads |-> {}]
    /\ resume_todo = <<>>
    /\ CoordIdle
    /\ faces = <<[photo_id |-> 1, person_id |-> 1, embedding |-> <<1, 0>>]>>
    /\ persons = <<[name |-> person_name(1), centroid |-> <<1, 0>>, face_count |-> 1]>>
    /\ next_face_id = 2
    /\ next_person_id = 2
    /\ cw = [w \in Workers |-> IdleWorker]
    /\ crashes = 0
    /\ updated_for = [i \in 1..(MaxClusterPhotos + 1) |-> {}]
    /\ rec = RecIdle
    /\ EnrollIdle
    /\ RouteIdle
    /\ dr = IdleDrainer
    /\ cl = NoCloudCalls
    /\ sd = NotShuttingDown
    /\ ap = NoAssignCall
    /\ srv = ServerNotStarted
    /\ mg = IdleMerge

\* what a step of one worker leaves alone in the ingest group
ClusterFrame == UNCHANGED <<notClusterVars, resume_todo, put_log, crashes, rec>>

\* worker_loop: job_queue.get, then process_single_photo begins
CTake(w) ==
    /\ ipc["main"] = "running"
    /\ cw[w].pc = "idle"
    /\ job_queue # <<>>
    /\ cw' = [cw EXCEPT ![w] = [IdleWorker EXCEPT !.pc = "check_faces",
                                                  !.photo = Head(job_queue)]]
    /\ job_queue' = Tail(job_queue)
    /\ UNCHANGED <<incoming, photos, ipc, faces, persons, next_face_id,
                   next_person_id, updated_for>>
    /\ ClusterFrame

\* process_single_photo: Face rows left by an earlier attempt are cleaned up
CCheckFaces(w) ==
    /\ cw[w].pc = "check_faces"
    /\ IF FacesOfPhotos(faces, {cw[w].photo}) # {}
       THEN /\ faces' = CleanupFaces({cw[w].photo})
            /\ persons' = CleanupPersons({cw[w].photo})
       ELSE UNCHANGED <<faces, persons>>
    /\ cw' = [cw EXCEPT ![w].pc = "begin"]
    /\ UNCHANGED <<incoming, photos, ipc, job_queue, next_face_id,
                   next_person_id, updated_for>>
    /\ ClusterFrame

\* process_single_photo: status 'processing', then process_photo detects the
\* faces or fails
CBegin(w) ==
    /\ cw[w].pc = "begin"
    /\ photos' = [photos EXCEPT ![cw[w].photo].status = "processing"]
    /\ updated_for' = [updated_for EXCEPT ![cw[w].photo] = {}]
    /\ \/ cw' = [cw EXCEPT ![w].pc = "fail"]
       \/ \E fl \in FaceLists :
            cw' = [cw EXCEPT ![w].todo = fl,
                             ![w].pc = IF fl = <<>> THEN "finish" ELSE "face"]
    /\ UNCHANGED <<incoming, ipc, job_queue, faces, persons, next_face_id,
                   next_person_id>>
    /\ ClusterFrame

\* process_single_photo: processing failed, status 'error', the original is
\* moved to Errors/
CFail(w) ==
    /\ cw[w].pc = "fail"
    /\ photos' = [photos EXCEPT ![cw[w].photo].status = "error"]
    /\ incoming' = [incoming EXCEPT ![photos[cw[w].photo].original_path] = 0]
    /\ cw' = [cw EXCEPT ![w] = IdleWorker]
    /\ UNCHANGED <<ipc, job_queue, faces, persons, next_face_id,
                   next_person_id, updated_for>>
    /\ ClusterFrame

\* db.create_face: the row is inserted with person_id NULL (0)
CCreateFace(w) ==
    /\ cw[w].pc = "face"
    /\ faces' = faces @@ (next_face_id :>
                   [photo_id |-> cw[w].photo, person_id |-> 0,
                    embedding |-> Head(cw[w].todo)])
    /\ next_face_id' = next_face_id + 1
    /\ cw' = [cw EXCEPT ![w].face = next_face_id, ![w].pc = "read_persons"]
    /\ UNCHANGED <<incoming, photos, ipc, job_queue, persons, next_person_id,
                   updated_for>>
    /\ ClusterFrame

\* assign_person: persons = db.get_all_persons()
CReadPersons(w) ==
    /\ cw[w].pc = "read_persons"
    /\ cw' = [cw EXCEPT ![w].seen = persons, ![w].pc = "assign"]
    /\ UNCHANGED <<incoming, photos, ipc, job_queue, faces, persons,
                   next_face_id, next_person_id, updated_for>>
    /\ ClusterFrame

\* the face_count assign_person writes for a matched Person: the count it
\* read plus one
NewCount(seen, p) == seen[p].face_count + 1

\* assign_person: the nearest Person of the rows read is within the
\* threshold and is written back (centroid, face_count + 1), or the next
\* person number is read
CAssign(w) ==
    /\ cw[w].pc = "assign"
    /\ LET e == Normalize(Head(cw[w].todo))
           seen == cw[w].seen
           p == find_nearest_person(e, seen)
       IN  IF p # 0 /\ cosine_distance(e, seen[p].centroid) < ClusterThreshold10
           THEN /\ persons' =
                     IF p \in DOMAIN persons
                     THEN [persons EXCEPT
                             ![p].centroid = update_centroid(seen[p].centroid, e,
                                                             seen[p].face_count),
                             ![p].face_count = NewCount(seen, p)]
                     ELSE persons
                /\ updated_for' = [updated_for EXCEPT ![cw[w].photo] = @ \cup {p}]
                /\ cw' = [cw EXCEPT ![w].person = p, ![w].pc = "link"]
           ELSE /\ cw' = [cw EXCEPT ![w].num = get_next_person_number,
                                    ![w].pc = "create_person"]
                /\ UNCHANGED <<persons, updated_for>>
    /\ UNCHANGED <<incoming, photos, ipc, job_queue, faces, next_face_id,
                   next_person_id>>
    /\ ClusterFrame

\* assign_person: db.create_person("Person_NNN", embedding), face_count 1
CCreatePerson(w) ==
    /\ cw[w].pc = "create_person"
    /\ persons' = persons @@ (next_person_id :>
                     [name |-> person_name(cw[w].num),
                      centroid |-> Normalize(Head(cw[w].todo)),
                      face_count |-> 1])
    /\ next_person_id' = next_person_id + 1
    /\ updated_for' = [updated_for EXCEPT ![cw[w].photo] = @ \cup {next_person_id}]
    /\ cw' = [cw EXCEPT ![w].person = next_person_id, ![w].pc = "link"]
    /\ UNCHANGED <<incoming, photos, ipc, job_queue, faces, next_face_id>>
    /\ ClusterFrame

\* db.update_face_person(face_id, person_id); a Person that is gone makes
\* the UPDATE fail on the foreign key and the photo ends in 'error'
CLink(w) ==
    /\ cw[w].pc = "link"
    /\ IF cw[w].person \in DOMAIN persons
       THEN /\ faces' = IF cw[w].face \in DOMAIN faces
                        THEN [faces EXCEPT ![cw[w].face].person_id = cw[w].person]
                        ELSE faces
            /\ cw' = [cw EXCEPT ![w].todo = Tail(@),
                                ![w].pc = IF Len(cw[w].todo) > 1 THEN "face" ELSE "finish"]
       ELSE /\ cw' = [cw EXCEPT ![w].pc = "fail"]
            /\ UNCHANGED faces
    /\ UNCHANGED <<incoming, photos, ipc, job_queue, persons, next_face_id,
                   next_person_id, updated_for>>
    /\ ClusterFrame

\* process_single_photo: update_photo_processing with 'no_faces' or 'completed'
CFinish(w) ==
    /\ cw[w].pc = "finish"
    /\ photos' = [photos EXCEPT ![cw[w].photo].status =
                     IF cw[w].face = 0
                     THEN "no_faces" ELSE "completed"]
    /\ cw' = [cw EXCEPT ![w] = IdleWorker]
    /\ UNCHANGED <<incoming, ipc, job_queue, faces, persons, next_face_id,
                   next_person_id, updated_for>>
    /\ ClusterFrame

\* the process is killed: the queue and the workers' locals are gone, the
\* database stays as it is
Crash ==
    /\ ipc["main"] = "running"
    /\ crashes < MaxCrashes
    /\ crashes' = crashes + 1
    /\ ipc' = [ipc EXCEPT !["main"] = "down"]
    /\ cw' = [w \in Workers |-> IdleWorker]
    /\ job_queue' = <<>>
    /\ UNCHANGED <<incoming, photos, faces, persons, next_face_id,
                   next_person_id, updated_for, resume_todo, put_log, rec>>
    /\ UNCHANGED notClusterVars

StuckPhotos == {i \in DOMAIN photos : photos[i].status = "processing"}
OrphanPhotos == {i \in DOMAIN photos :
                    photos[i].status = "pending" /\ FacesOfPhotos(faces, {i}) # {}}

\* next start: Database.initialize runs _reset_stuck_processing; every file
\* of Incoming/ has its Photo row, so the start-up scan finds nothing new
Recover ==
    /\ ipc["main"] = "down"
    /\ IF StuckPhotos = {}
       THEN /\ faces' = CleanupFaces(OrphanPhotos)
            /\ persons' = CleanupPersons(OrphanPhotos)
            /\ UNCHANGED photos
       ELSE /\ faces' = CleanupFaces(StuckPhotos)
            /\ persons' = CleanupPersons(StuckPhotos)
            /\ photos' = [i \in DOMAIN photos |->
                            IF i \in StuckPhotos
                            THEN [photos[i] EXCEPT !.status = "pending"]
                            ELSE photos[i]]
    /\ ipc' = [ipc EXCEPT !["main"] = "resume"]
    /\ UNCHANGED <<incoming, job_queue, next_face_id, next_person_id, cw,
                   crashes, updated_for, resume_todo, put_log, rec>>
    /\ UNCHANGED notClusterVars

NextCluster ==
    \/ \E w \in Workers : CTake(w)
    \/ \E w \in Workers : CCheckFaces(w)
    \/ \E w \in Workers : CBegin(w)
    \/ \E w \in Workers : CFail(w)
    \/ \E w \in Workers : CCreateFace(w)
    \/ \E w \in Workers : CReadPersons(w)
    \/ \E w \in Workers : CAssign(w)
    \/ \E w \in Workers : CCreatePerson(w)
    \/ \E w \in Workers : CLink(w)
    \/ \E w \in Workers : CFinish(w)
    \/ Crash
    \/ Recover
    \/ ResumeRead
    \/ ResumePut
    \/ ResumeDone

SpecCluster == ClusterInit /\ [][NextCluster]_vars

\* C37: no two Persons that exist at the same time have the same name (and
\* so the same folder under People/), also when several workers create
\* Persons concurrently and after recovery deleted Persons.
C37_PersonNamesUnique ==
    \A p, q \in DOMAIN persons : persons[p].name = persons[q].name => p = q

\* C38: two faces with the same embedding are assigned to the same Person,
\* whichever workers process them and however their assign_person calls
\* interleave.
C38_SameEmbeddingSamePerson ==
    \A f, g \in DOMAIN faces :
        (/\ faces[f].embedding = faces[g].embedding
         /\ faces[f].person_id # 0
         /\ faces[g].person_id # 0)
            => faces[f].person_id = faces[g].person_id

Quiescent ==
    /\ \A i \in DOMAIN photos : photos[i].status # "processing"
    /\ \A w \in Workers : cw[w].pc = "idle"

\* C6: when no photo is in processing, every Person's face_count equals the
\* number of Face rows that reference it, also after several workers ran
\* assign_person at the same time (behaviours without a kill of the process).
C6_FaceCountAccurate ==
    (crashes = 0 /\ Quiescent) =>
        \A p \in DOMAIN persons :
            persons[p].face_count = Cardinality(FacesOfPerson(faces, p))

\* C10: when the process was killed while a photo was in processing, the
\* start-up recovery leaves that photo pending and without Face rows, and
\* every Person written for that photo is deleted or has its face_count and
\* centroid recomputed from the Face rows it has left.
C10_CrashRecovery ==
    [][(ipc["main"] = "down" /\ ipc'["main"] = "resume") =>
         \A i \in StuckPhotos :
            /\ photos'[i].status = "pending"
            /\ FacesOfPhotos(faces', {i}) = {}
            /\ \A p \in updated_for[i] :
                  \/ p \notin DOMAIN persons'
                  \/ /\ FacesOfPerson(faces', p) # {}
                     /\ persons'[p].face_count = Cardinality(FacesOfPerson(faces', p))
                     /\ persons'[p].centroid = MeanCentroid(faces', p)]_vars

\* C21: in every state of the store, a photo has either none of its detected
\* Faces stored or all of them with their person_id set (no Face row with a
\* NULL person_id is visible, no photo has only a part of its Faces stored).
C21_PhotoAtomic ==
    /\ \A f \in DOMAIN faces : faces[f].person_id # 0
    /\ \A w \in Workers :
          (cw[w].photo # 0 /\ FacesOfPhotos(faces, {cw[w].photo}) # {})
              => cw[w].todo = <<>>

(***************************************************************************)
(* Enrollment: enroll_user and rename_person_folder (enrollment.py), run   *)
(* by the web server and by the command line tool, and the rewrite of the  *)
(* upload_queue paths (db.py).                                             *)
(***************************************************************************)

\* sanitize_folder_name: clean[:50]
NameCap == 50
\* calls of enroll_user that one process makes
MaxEnrollCalls == 2

\* names a user can type: with a space and a character that is dropped, the
\* name of the directory that holds the person folders, blank
UserNames == {<<"J", " ", "K", "!">>, <<"People">>, <<" ">>}
WordChars == {"J", "K", "_", "People", "Person", "Unknown", "Solo", "Group",
              "0", "1", "2", "3", "4", "5", "6", "7", "8", "9"}
SpaceChars == {" "}

\* re.sub(r'[^\w\s-]', '', name)
RECURSIVE DropUnsafe(_)
DropUnsafe(str) ==
    IF str = <<>> THEN <<>>
    ELSE IF Head(str) \in WordChars \cup SpaceChars \cup {"-"}
         THEN <<Head(str)>> \o DropUnsafe(Tail(str))
         ELSE DropUnsafe(Tail(str))

\* str.strip()
RECURSIVE LStrip(_)
LStrip(str) == IF str # <<>> /\ Head(str) \in SpaceChars THEN LStrip(Tail(str)) ELSE str
RECURSIVE RStrip(_)
RStrip(str) == IF str # <<>> /\ str[Len(str)] \in SpaceChars
               THEN RStrip(SubSeq(str, 1, Len(str) - 1)) ELSE str
Strip(str) == RStrip(LStrip(str))

\* re.sub(r'\s+', '_', ...)
RECURSIVE SpacesToUnderscore(_)
SpacesToUnderscore(str) ==
    IF str = <<>> THEN <<>>
    ELSE IF Head(str) \in SpaceChars
         THEN <<"_">> \o SpacesToUnderscore(LStrip(str))
         ELSE <<Head(str)>> \o SpacesToUnderscore(Tail(str))

\* enrollment.sanitize_folder_name
sanitize_folder_name(name) ==
    LET clean == SpacesToUnderscore(Strip(DropUnsafe(name)))
    IN  IF clean = <<>> THEN <<"Unknown">>
        ELSE SubSeq(clean, 1, IF Len(clean) < NameCap THEN Len(clean) ELSE NameCap)

\* enrollment.generate_unique_folder_name
generate_unique_folder_name(base_name, person_id) ==
    IF base_name \notin folders THEN base_name
    ELSE base_name \o <<"_">> \o Digits(person_id)

\* str(people_dir / name / bucket / f"{photo_id:06d}.jpg")
RoutedPath(name, bucket, photo_id) ==
    <<"People", "/">> \o name \o <<"/", bucket, "/">> \o ZeroPad(Digits(photo_id), 6)
        \o <<".jpg">>

StartsWith(str, prefix) ==
    Len(prefix) <= Len(str) /\ SubSeq(str, 1, Len(prefix)) = prefix

\* the path lies in the person folder of that name
UnderFolder(path, name) == StartsWith(path, <<"People", "/">> \o name \o <<"/">>)

\* SQL REPLACE(str, old, new): every occurrence, left to right
RECURSIVE Replace(_, _, _)
Replace(str, old, new) ==
    IF old = <<>> \/ str = <<>> THEN str
    ELSE IF StartsWith(str, old)
         THEN new \o Replace(SubSeq(str, Len(old) + 1, Len(str)), old, new)
         ELSE <<Head(str)>> \o Replace(Tail(str), old, new)

\* SQL str LIKE '%' || pat || '%': the underscore of the pattern stands for
\* any one character
LikeContains(str, pat) ==
    \E i \in 1..(Len(str) - Len(pat) + 1) :
        \A k \in 1..Len(pat) : pat[k] = "_" \/ pat[k] = str[i + k - 1]

\* Database.update_upload_paths: the upload_queue table afterwards
RewrittenStatuses == {"pending", "failed"}
update_upload_paths(old, new) ==
    [j \in DOMAIN uploads |->
        IF uploads[j].status \in RewrittenStatuses /\ LikeContains(uploads[j].local_path, old)
        THEN [uploads[j] EXCEPT !.local_path = Replace(@, old, new)]
        ELSE uploads[j]]

\* a row of the upload_queue table: enqueue_upload inserts it as 'pending'
\* with retry_count 0 and no last_error; a 'failed' row has been tried once
UploadRow(photo_id, local_path, status) ==
    [photo_id |-> photo_id, status |-> status, local_path |-> local_path,
     retry_count |-> IF status = "failed" THEN 1 ELSE 0,
     last_error |-> IF status = "failed" THEN "Upload returned False" ELSE ""]

\* Database.is_person_enrolled
is_person_enrolled(p) == \E i \in DOMAIN enrollments : enrollments[i].person_id = p

\* Database.get_enrollment_by_person: the first row of the Person
get_enrollment_by_person(p) ==
    enrollments[CHOOSE i \in DOMAIN enrollments :
                   /\ enrollments[i].person_id = p
                   /\ \A k \in DOMAIN enrollments :
                         enrollments[k].person_id = p => i <= k]

UploadStatuses == {"pending", "uploading", "completed", "failed"}
\* the states the three upload jobs are in when the enrollments begin
InitialStatuses == {<<"pending", "completed", "pending">>,
                    <<"failed", "uploading", "completed">>,
                    <<"completed", "failed", "failed">>,
                    <<"uploading", "pending", "uploading">>}

\* Two photos were processed, one of the first Person alone and one of both
\* Persons together; the upload jobs of the three routed copies are in any
\* state of their life.
EnrollInit ==
    /\ photos = [i \in 1..2 |-> [PhotoRow(i, i) EXCEPT !.status = "completed"]]
    /\ put_log = [i \in 1..2 |-> [ingest |-> 1, resume |-> 0]]
    /\ incoming = [f \in Paths |-> 0]
    /\ ipc = [t \in IngestThreads |-> IF t = "main" THEN "running" ELSE "idle"]
    /\ icur = [t \in IngestThreads |-> NoFile]
    /\ todo = [t \in IngestThreads |-> {}]
    /\ resume_todo = <<>>
    /\ job_queue = <<>>
    /\ CoordIdle
    /\ persons = <<[name |-> person_name(1), centroid |-> <<1, 0>>, face_count |-> 2],
                   [name |-> person_name(2), centroid |-> <<0, 1>>, face_count |-> 1]>>
    /\ faces = <<[photo_id |-> 1, person_id |-> 1, embedding |-> <<1, 0>>],
                 [photo_id |-> 2, person_id |-> 1, embedding |-> <<1, 0>>],
                 [photo_id |-> 2, person_id |-> 2, embedding |-> <<0, 1>>]>>
    /\ next_face_id = 4
    /\ next_person_id = 3
    /\ cw = [w \in Workers |-> IdleWorker]
    /\ crashes = 0
    /\ rec = RecIdle
    /\ updated_for = [i \in 1..2 |-> {}]
    /\ enrollments = <<>>
    /\ folders = {person_name(1), person_name(2)}
    /\ \E st \in InitialStatuses :
          uploads =
            <<UploadRow(1, RoutedPath(person_name(1), "Solo", 1),
                         st[1]),
              UploadRow(2, RoutedPath(person_name(1), "Group", 2),
                         st[2]),
              UploadRow(2, RoutedPath(person_name(2), "Group", 2),
                         st[3])>>
    /\ en = [e \in Enrollers |-> IdleEnroller]
    /\ files = {RoutedPath(person_name(1), "Solo", 1),
                RoutedPath(person_name(1), "Group", 2),
                RoutedPath(person_name(2), "Group", 2)}
    /\ rw = [w \in Workers |-> IdleRouter]
    /\ dr = IdleDrainer
    /\ cl = NoCloudCalls
    /\ sd = NotShuttingDown
    /\ ap = NoAssignCall
    /\ srv = ServerNotStarted
    /\ mg = IdleMerge

EnrollFrame == UNCHANGED notEnrollVars

\* the selfie: the embedding of its best face, <<>> when no face is detected
Selfies == Embeddings \cup {<<>>}

\* enroll_user returns: only the EnrollmentResult is left of the call
Returned(call, reason) ==
    [IdleEnroller EXCEPT !.pc = "done", !.result = reason, !.person = call.person,
                         !.calls = call.calls]

\* enroll_user up to the match: validation, detect_faces, get_all_persons,
\* find_nearest_person
EStart(e, user_name, selfie) ==
    /\ en[e].pc \in {"idle", "done"}
    /\ en[e].calls < MaxEnrollCalls
    /\ LET p == IF selfie = <<>> THEN 0
                ELSE find_nearest_person(Normalize(selfie), persons)
           fail(reason) == [IdleEnroller EXCEPT !.pc = "done", !.result = reason,
                                                !.calls = en[e].calls + 1]
       IN  en' = [en EXCEPT ![e] =
                IF Strip(user_name) = <<>> THEN fail("name_required")
                ELSE IF selfie = <<>> THEN fail("no_face")
                ELSE IF DOMAIN persons = {} THEN fail("no_persons")
                ELSE IF p = 0 \/ cosine_distance(Normalize(selfie), persons[p].centroid)
                                    >= ClusterThreshold10
                     THEN fail("no_match")
                ELSE [IdleEnroller EXCEPT !.pc = "check", !.user_name = user_name,
                                          !.selfie = selfie, !.person = p,
                                          !.calls = en[e].calls + 1]]
    /\ UNCHANGED <<persons, enrollments, folders, uploads, files>>
    /\ EnrollFrame

\* enroll_user: if db.is_person_enrolled(nearest_person.id): already enrolled
ECheck(e) ==
    /\ en[e].pc = "check"
    /\ en' = [en EXCEPT ![e] =
                IF is_person_enrolled(en[e].person)
                THEN [Returned(en[e], "already_enrolled") EXCEPT
                         !.reported = get_enrollment_by_person(en[e].person).user_name]
                ELSE [@ EXCEPT !.pc = "rename"]]
    /\ UNCHANGED <<persons, enrollments, folders, uploads, files>>
    /\ EnrollFrame

\* rename_person_folder: the Person row is read, the new folder name is made
ERenameRead(e) ==
    /\ en[e].pc = "rename"
    /\ en' = [en EXCEPT ![e] =
                IF en[e].person \notin DOMAIN persons
                THEN Returned(en[e], "rename_failed")
                ELSE [@ EXCEPT !.pc = "move",
                               !.old = persons[en[e].person].name,
                               !.new = generate_unique_folder_name(
                                          sanitize_folder_name(en[e].user_name),
                                          en[e].person)]]
    /\ UNCHANGED <<persons, enrollments, folders, uploads, files>>
    /\ EnrollFrame

\* shutil.move(old_folder_path, new_folder_path): the files of the folder
\* go with it, below the new folder when that exists already
MoveFolder(old, new) ==
    LET oldDir == <<"People", "/">> \o old \o <<"/">>
        newDir == IF new \in folders
                  THEN <<"People", "/">> \o new \o <<"/">> \o old \o <<"/">>
                  ELSE <<"People", "/">> \o new \o <<"/">>
    IN  {IF StartsWith(f, oldDir)
         THEN newDir \o SubSeq(f, Len(oldDir) + 1, Len(f))
         ELSE f : f \in files}

\* rename_person_folder: shutil.move of the old folder (into the new one when
\* that exists by now), or the new folder is created; an OSError ends the
\* enrollment
EMove(e) ==
    /\ en[e].pc = "move"
    /\ \/ /\ folders' = IF en[e].old \in folders
                        THEN IF en[e].new \in folders
                             THEN folders \ {en[e].old}
                             ELSE (folders \ {en[e].old}) \cup {en[e].new}
                        ELSE folders \cup {en[e].new}
          /\ files' = MoveFolder(en[e].old, en[e].new)
          /\ en' = [en EXCEPT ![e].pc = "rename_db"]
       \/ /\ en' = [en EXCEPT ![e] = Returned(en[e], "rename_failed")]
          /\ UNCHANGED <<folders, files>>
    /\ UNCHANGED <<persons, enrollments, uploads>>
    /\ EnrollFrame

\* rename_person_folder: db.update_person_name(person_id, unique_name)
ERenameDb(e) ==
    /\ en[e].pc = "rename_db"
    /\ persons' = IF en[e].person \in DOMAIN persons
                  THEN [persons EXCEPT ![en[e].person].name = en[e].new]
                  ELSE persons
    /\ en' = [en EXCEPT ![e].pc = "paths"]
    /\ UNCHANGED <<enrollments, folders, uploads, files>>
    /\ EnrollFrame

\* rename_person_folder: db.update_upload_paths(old_folder_name, unique_name)
EPaths(e) ==
    /\ en[e].pc = "paths"
    /\ uploads' = update_upload_paths(en[e].old, en[e].new)
    /\ en' = [en EXCEPT ![e].pc = "create"]
    /\ UNCHANGED <<persons, enrollments, folders, files>>
    /\ EnrollFrame

\* enroll_user: the selfie is saved in the folder the Person row names now
\* (nothing is saved when that folder is not there), db.create_enrollment
\* inserts the row
ECreate(e) ==
    /\ en[e].pc = "create"
    /\ enrollments' = Append(enrollments,
                         [person_id |-> en[e].person, user_name |-> en[e].user_name])
    /\ files' = IF en[e].person \in DOMAIN persons
                       /\ persons[en[e].person].name \in folders
                 THEN files \cup {<<"People", "/">> \o persons[en[e].person].name
                                     \o <<"/", "00_REFERENCE_SELFIE.jpg">>}
                 ELSE files
    /\ en' = [en EXCEPT ![e] = Returned(en[e], "success")]
    /\ UNCHANGED <<persons, folders, uploads>>
    /\ EnrollFrame

NextEnroll ==
    \/ \E e \in Enrollers, n \in UserNames, f \in Selfies : EStart(e, n, f)
    \/ \E e \in Enrollers : ECheck(e)
    \/ \E e \in Enrollers : ERenameRead(e)
    \/ \E e \in Enrollers : EMove(e)
    \/ \E e \in Enrollers : ERenameDb(e)
    \/ \E e \in Enrollers : EPaths(e)
    \/ \E e \in Enrollers : ECreate(e)

SpecEnroll == EnrollInit /\ [][NextEnroll]_vars

\* C7: after any interleaving of enroll_user calls each Person has at most
\* one Enrollment row; a call whose selfie matches an enrolled Person ends as
\* already enrolled with the existing user name, and no call is renaming the
\* folder or inserting a row for a Person that is enrolled.
C7_AtMostOneEnrollment ==
    /\ \A p \in DOMAIN persons :
          Cardinality({i \in DOMAIN enrollments : enrollments[i].person_id = p}) <= 1
    /\ \A e \in Enrollers :
          en[e].result = "already_enrolled" =>
             /\ is_person_enrolled(en[e].person)
             /\ en[e].reported = get_enrollment_by_person(en[e].person).user_name

\* C8: the step of a rename from old to new that rewrites the upload queue
\* leaves every pending or failed job that lay under People/old under
\* People/new, and leaves every completed job as it was.
C8_RenamePropagation ==
    [][\A e \in Enrollers :
          (en[e].pc = "paths" /\ en'[e].pc = "create") =>
             \A j \in DOMAIN uploads :
                /\ (uploads[j].status \in {"pending", "failed"}
                      /\ UnderFolder(uploads[j].local_path, en[e].old))
                   => UnderFolder(uploads'[j].local_path, en[e].new)
                /\ uploads[j].status = "completed" => uploads'[j] = uploads[j]]_vars

\* rename_person_folder: db.update_person_name raises (the database stays
\* locked, the disk is full); the except clause returns False and
\* enroll_user ends with "Failed to rename person folder"
ERenameDbFails(e) ==
    /\ en[e].pc = "rename_db"
    /\ en' = [en EXCEPT ![e] = Returned(en[e], "rename_failed")]
    /\ UNCHANGED <<persons, enrollments, folders, uploads, files>>
    /\ EnrollFrame

\* rename_person_folder: db.update_upload_paths raises; the exception is
\* logged as a warning and the rename goes on
EPathsFails(e) ==
    /\ en[e].pc = "paths"
    /\ en' = [en EXCEPT ![e].pc = "create"]
    /\ UNCHANGED <<persons, enrollments, folders, uploads, files>>
    /\ EnrollFrame

\* enroll_user: the selfie is saved, db.create_enrollment raises and the
\* exception leaves enroll_user
ECreateFails(e) ==
    /\ en[e].pc = "create"
    /\ files' = IF en[e].person \in DOMAIN persons
                       /\ persons[en[e].person].name \in folders
                 THEN files \cup {<<"People", "/">> \o persons[en[e].person].name
                                     \o <<"/", "00_REFERENCE_SELFIE.jpg">>}
                 ELSE files
    /\ en' = [en EXCEPT ![e] = Returned(en[e], "raised")]
    /\ UNCHANGED <<persons, enrollments, folders, uploads>>
    /\ EnrollFrame

\* the enrollments of the web server, one call after the other, where every
\* substep of the rename can fail
NextEnrollFail ==
    \/ \E n \in UserNames, f \in Selfies : EStart("server", n, f)
    \/ ECheck("server")
    \/ ERenameRead("server")
    \/ EMove("server")
    \/ ERenameDb("server")
    \/ ERenameDbFails("server")
    \/ EPaths("server")
    \/ EPathsFails("server")
    \/ ECreate("server")
    \/ ECreateFails("server")

SpecEnrollFail == EnrollInit /\ [][NextEnrollFail]_vars

\* C24: whatever substep of the enrollment rename failed, once enroll_user
\* has ended every Person's name in the store names an existing folder under
\* People/ and every pending or failed upload job points at an existing file.
C24_RenameLosesNothing ==
    (\A e \in Enrollers : en[e].pc \in {"idle", "done"}) =>
        /\ \A p \in DOMAIN persons : persons[p].name \in folders
        /\ \A j \in DOMAIN uploads :
              uploads[j].status \in {"pending", "failed"}
                  => uploads[j].local_path \in files

(***************************************************************************)
(* Routing: route_photo (router.py) as process_single_photo calls it once  *)
(* the faces of the photo are persisted and assigned (worker.py).          *)
(***************************************************************************)

\* the sets of Persons the faces of a photo can belong to
PersonSets == {{1}, {2}, {1, 2}}

\* the Persons of the Face rows of a photo
PersonsOfPhoto(i) == {faces[f].person_id : f \in FacesOfPhotos(faces, {i})} \ {0}

Bucket(P) == IF Cardinality(P) = 1 THEN "Solo" ELSE "Group"

\* the Face rows of photo i, one per Person of P, each with the embedding of
\* its Person
FaceRowsOf(i, P) ==
    LET row(q) == [photo_id |-> i, person_id |-> q,
                   embedding |-> IF q = 1 THEN <<1, 0>> ELSE <<0, 1>>]
    IN  (IF 1 \in P THEN <<row(1)>> ELSE <<>>) \o (IF 2 \in P THEN <<row(2)>> ELSE <<>>)

\* the Face rows of the photos the workers from w on are holding
RECURSIVE FaceRowsFrom(_, _)
FaceRowsFrom(ps, w) ==
    IF w > NWorkers THEN <<>>
    ELSE FaceRowsOf(w + 1, ps[w]) \o FaceRowsFrom(ps, w + 1)

\* An earlier photo of both Persons is completed and routed; each worker
\* has the faces of its photo persisted and assigned and is about to route.
RouteInit ==
    /\ \E ps \in [Workers -> PersonSets] :
         /\ faces = FaceRowsOf(1, {1, 2}) \o FaceRowsFrom(ps, 1)
         /\ rw = [w \in Workers |->
                    [IdleRouter EXCEPT !.pc = "route", !.photo = w + 1,
                                       !.persons = ps[w], !.bucket = Bucket(ps[w])]]
    /\ persons = <<[name |-> person_name(1), centroid |-> <<1, 0>>,
                    face_count |-> Cardinality(FacesOfPerson(faces, 1))],
                   [name |-> person_name(2), centroid |-> <<0, 1>>,
                    face_count |-> Cardinality(FacesOfPerson(faces, 2))]>>
    /\ photos = [i \in 1..(NWorkers + 1) |->
                    [PhotoRow(i, i) EXCEPT !.status =
                        IF i = 1 THEN "completed" ELSE "processing"]]
    /\ put_log = [i \in 1..(NWorkers + 1) |-> [ingest |-> 1, resume |-> 0]]
    /\ incoming = [f \in 1..(NWorkers + 1) |-> f]
    /\ ipc = [t \in IngestThreads |-> IF t = "main" THEN "running" ELSE "idle"]
    /\ icur = [t \in IngestThreads |-> NoFile]
    /\ todo = [t \in IngestThreads |-> {}]
    /\ resume_todo = <<>>
    /\ job_queue = <<>>
    /\ CoordIdle
    /\ next_face_id = Len(faces) + 1
    /\ next_person_id = 3
    /\ cw = [w \in Workers |-> IdleWorker]
    /\ crashes = 0
    /\ rec = RecIdle
    /\ dr = IdleDrainer
    /\ cl = NoCloudCalls
    /\ sd = NotShuttingDown
    /\ ap = NoAssignCall
    /\ srv = ServerNotStarted
    /\ mg = IdleMerge
    /\ updated_for = [i \in 1..(NWorkers + 1) |-> {}]
    /\ enrollments = <<>>
    /\ en = [e \in Enrollers |-> IdleEnroller]
    /\ folders = {person_name(1), person_name(2)}
    /\ files = {RoutedPath(person_name(1), "Group", 1),
                RoutedPath(person_name(2), "Group", 1)}
    /\ uploads = <<UploadRow(1, RoutedPath(person_name(1), "Group", 1),
                         "completed"),
                   UploadRow(1, RoutedPath(person_name(2), "Group", 1),
                         "completed")>>

RouteFrame == UNCHANGED notRouteVars

\* route_photo, next Person of unique_persons: ensure_person_folders reads
\* the name of the Person row (Person_NNN when the row is gone) and makes
\* the folders; an OSError of mkdir leaves route_photo as an exception
RNext(w) ==
    /\ rw[w].pc = "route"
    /\ rw[w].persons # {}
    /\ \E q \in rw[w].persons :
         LET person_folder_name == IF q \in DOMAIN persons THEN persons[q].name
                                   ELSE person_name(q)
         IN  \/ /\ folders' = folders \cup {person_folder_name}
                /\ rw' = [rw EXCEPT ![w].persons = @ \ {q},
                                    ![w].name = person_folder_name,
                                    ![w].pc = "copy"]
             \/ /\ rw' = [rw EXCEPT ![w].pc = "routing_error"]
                /\ UNCHANGED folders
    /\ UNCHANGED <<photos, persons, faces, files, uploads, job_queue>>
    /\ RouteFrame

\* copy_or_link(processed_path, dst): the directory of the destination is
\* made when it is missing (dst.parent.mkdir), an existing destination
\* counts as routed, a new one is linked or copied, a failure is logged and
\* the path is left out of routed_paths
RCopy(w) ==
    /\ rw[w].pc = "copy"
    /\ LET dst == RoutedPath(rw[w].name, rw[w].bucket, rw[w].photo)
       IN  \/ /\ files' = files \cup {dst}
              /\ folders' = folders \cup {rw[w].name}
              /\ rw' = [rw EXCEPT ![w].routed = Append(@, dst), ![w].pc = "route"]
           \/ /\ dst \notin files
              /\ rw' = [rw EXCEPT ![w].pc = "route"]
              /\ UNCHANGED <<files, folders>>
    /\ UNCHANGED <<photos, persons, faces, uploads, job_queue>>
    /\ RouteFrame

\* process_single_photo: one upload job per routed path
REnqueue(w) ==
    /\ rw[w].pc = "route"
    /\ rw[w].persons = {}
    /\ uploads' = uploads \o
                    [k \in 1..Len(rw[w].routed) |->
                        UploadRow(rw[w].photo, rw[w].routed[k],
                         "pending")]
    /\ rw' = [rw EXCEPT ![w].pc = "complete"]
    /\ UNCHANGED <<photos, persons, faces, folders, files, job_queue>>
    /\ RouteFrame

\* process_single_photo: update_photo_processing(..., "completed"), after
\* the uploads are queued and also in the except clause of a routing error
RComplete(w) ==
    /\ rw[w].pc \in {"complete", "routing_error"}
    /\ photos' = [photos EXCEPT ![rw[w].photo].status = "completed"]
    /\ rw' = [rw EXCEPT ![w] = IdleRouter]
    /\ UNCHANGED <<persons, faces, folders, files, uploads, job_queue>>
    /\ RouteFrame

NextRoute ==
    \/ \E w \in Workers : RNext(w)
    \/ \E w \in Workers : RCopy(w)
    \/ \E w \in Workers : REnqueue(w)
    \/ \E w \in Workers : RComplete(w)

SpecRoute == RouteInit /\ [][NextRoute]_vars

\* C9: for every completed Photo whose faces belong to the set P of Persons
\* the file <photoId padded to 6>.jpg is under People/<name of p>/Solo when
\* P has one Person, under People/<name of p>/Group when it has more, for
\* exactly the Persons p of P, and in no other folder of a Person.
C9_RoutingTotality ==
    \A i \in DOMAIN photos :
        photos[i].status = "completed" =>
            \A q \in DOMAIN persons, b \in {"Solo", "Group"} :
                RoutedPath(persons[q].name, b, i) \in files
                    <=> (q \in PersonsOfPhoto(i) /\ b = Bucket(PersonsOfPhoto(i)))

\* C23: a photo with faces is marked completed only if route_photo returned
\* with at least one destination written; if routing raised or no
\* destination was written, the photo is marked error.
C23_CompletedOnlyIfRouted ==
    [][\A w \in Workers :
          (rw[w].pc \in {"complete", "routing_error"} /\ rw'[w].pc = "idle")
             => photos'[rw[w].photo].status =
                   IF rw[w].pc = "complete" /\ rw[w].routed # <<>>
                   THEN "completed" ELSE "error"]_vars



(***************************************************************************)
(* Routing while enrollments rename Person folders: the workers of         *)
(* SpecRoute and the callers of enroll_user of SpecEnroll run side by      *)
(* side on one database and one People/ tree.                              *)
(***************************************************************************)
\* the enrollments come from the web server, with one user name
RenameCallers == {"server"}
RenameNames == {<<"J", " ", "K", "!">>}

\* each worker routes a photo that shows the first Person alone
RouteRenameInit ==
    /\ RouteInit
    /\ \A w \in Workers : rw[w].persons = {1}

NextRouteRename ==
    \/ \E w \in Workers : RNext(w)
    \/ \E w \in Workers : RCopy(w)
    \/ \E w \in Workers : REnqueue(w)
    \/ \E w \in Workers : RComplete(w)
    \/ \E e \in RenameCallers, n \in RenameNames, f \in Embeddings : EStart(e, n, f)
    \/ \E e \in RenameCallers : ECheck(e)
    \/ \E e \in RenameCallers : ERenameRead(e)
    \/ \E e \in RenameCallers : EMove(e)
    \/ \E e \in RenameCallers : ERenameDb(e)
    \/ \E e \in RenameCallers : EPaths(e)
    \/ \E e \in RenameCallers : ECreate(e)

SpecRouteRename == RouteRenameInit /\ [][NextRouteRename]_vars

\* the path lies in the folder of some Person's current name
UnderCurrentFolder(path) ==
    \E q \in DOMAIN persons : UnderFolder(path, persons[q].name)

\* the photos the workers route in this specification
RoutedHere == {w + 1 : w \in Workers}

\* the path is a routed copy of photo i
CopyOf(path, i) ==
    Len(path) >= 2 /\ SubSeq(path, Len(path) - 6, Len(path)) = ZeroPad(Digits(i), 6) \o <<".jpg">>

\* C39: once the routing and the enrollments have ended, every routed file
\* and every upload job of a routed photo lies under the folder named by a
\* Person's current name: none is left under an old folder name.
C39_RoutedUnderCurrentName ==
    (/\ \A w \in Workers : rw[w].pc = "idle"
     /\ \A e \in Enrollers : en[e].pc \in {"idle", "done"})
        => /\ \A f \in files :
                 (\E i \in RoutedHere : CopyOf(f, i)) => UnderCurrentFolder(f)
           /\ \A j \in DOMAIN uploads :
                 uploads[j].photo_id \in RoutedHere
                     => UnderCurrentFolder(uploads[j].local_path)

(***************************************************************************)
(* Start-up recovery in its steps, a kill of the process inside it, and    *)
(* the periodic sweep of the main loop (db.py, worker.py)                  *)
(***************************************************************************)
\* kills of the process while the start-up recovery runs
MaxRecoveryKills == 1

\* Database._reset_stuck_processing: the photos one run works on, the stuck
\* ones or, when there is none, the pending ones that have Face rows
RecoveryIds == IF StuckPhotos # {} THEN StuckPhotos ELSE OrphanPhotos

\* Database._reset_stuck_processing: UPDATE photos SET status = 'pending'
ResetToPending(ids) ==
    [i \in DOMAIN photos |->
        IF i \in ids THEN [photos[i] EXCEPT !.status = "pending"] ELSE photos[i]]

\* the photos, faces and persons tables as they are now
Store == [photos |-> photos, faces |-> faces, persons |-> persons]

\* Database._reset_stuck_processing run from the current store without
\* interruption: the store it leaves.  No enrollment exists in this
\* specification, so DELETE FROM persons never meets the foreign key of
\* enrollments.person_id.
RecoveredStore ==
    [photos |-> IF StuckPhotos # {} THEN ResetToPending(StuckPhotos) ELSE photos,
     faces |-> CleanupFaces(RecoveryIds),
     persons |-> CleanupPersons(RecoveryIds)]

\* _cleanup_orphaned_faces: SELECT DISTINCT person_id ... AND person_id IS NOT NULL
AffectedPersons(ids) ==
    {faces[f].person_id : f \in FacesOfPhotos(faces, ids)} \ {0}

\* where the recovery goes on after a step of _cleanup_orphaned_faces
AfterCleanup(affected, reset) ==
    IF affected # {} THEN "persons" ELSE IF reset THEN "reset" ELSE "done"

\* the main thread once the recovery has reached position pc
MainAfter(pc) ==
    [ipc EXCEPT !["main"] = IF pc = "done" THEN "resume" ELSE "down"]

RecoverFrame ==
    /\ UNCHANGED <<incoming, job_queue, next_face_id, next_person_id, cw,
                   crashes, updated_for, resume_todo, put_log>>
    /\ UNCHANGED notClusterVars

\* Database.initialize at the next start: _reset_stuck_processing reads the
\* stuck (or orphaned) photo ids, _cleanup_orphaned_faces reads the affected
\* Persons and the number of Face rows and, unless that is 0, deletes the
\* Face rows.  Each statement is committed on its own (isolation_level=None).
RecBegin ==
    /\ ipc["main"] = "down"
    /\ rec.pc \in {"idle", "done", "killed"}
    /\ LET ids == RecoveryIds
           reset == StuckPhotos # {}
           none == FacesOfPhotos(faces, ids) = {}
           affected == IF none THEN {} ELSE AffectedPersons(ids)
           pc == AfterCleanup(affected, reset)
       IN  /\ faces' = IF none THEN faces ELSE CleanupFaces(ids)
           /\ rec' = [pc |-> pc, ids |-> ids, affected |-> affected,
                      kills |-> IF rec.pc = "killed" THEN rec.kills ELSE 0,
                      expect |-> IF rec.pc = "killed" THEN rec.expect
                                 ELSE RecoveredStore]
           /\ ipc' = MainAfter(pc)
    /\ UNCHANGED <<photos, persons>>
    /\ RecoverFrame

\* _cleanup_orphaned_faces: one round of the loop over the affected Persons,
\* the Person is deleted when no Face row is left, else its centroid and
\* face_count are recomputed from the rows left
RecPerson ==
    /\ rec.pc = "persons"
    /\ \E p \in rec.affected :
         LET left == rec.affected \ {p}
             pc == AfterCleanup(left, rec.ids \subseteq StuckPhotos /\ rec.ids # {})
         IN  /\ persons' =
                  IF p \notin DOMAIN persons THEN persons
                  ELSE IF FacesOfPerson(faces, p) = {}
                  THEN [q \in DOMAIN persons \ {p} |-> persons[q]]
                  ELSE [persons EXCEPT
                          ![p].centroid = MeanCentroid(faces, p),
                          ![p].face_count = Cardinality(FacesOfPerson(faces, p))]
             /\ rec' = [rec EXCEPT !.pc = pc, !.affected = left]
             /\ ipc' = MainAfter(pc)
    /\ UNCHANGED <<photos, faces>>
    /\ RecoverFrame

\* _reset_stuck_processing, step 3: the stuck photos go back to 'pending'
RecReset ==
    /\ rec.pc = "reset"
    /\ photos' = ResetToPending(rec.ids)
    /\ rec' = [rec EXCEPT !.pc = "done"]
    /\ ipc' = MainAfter("done")
    /\ UNCHANGED <<faces, persons>>
    /\ RecoverFrame

\* the process is killed while the recovery runs: what was committed stays,
\* the recovery's locals are gone
RecKill ==
    /\ rec.pc \in {"persons", "reset"}
    /\ rec.kills < MaxRecoveryKills
    /\ rec' = [rec EXCEPT !.pc = "killed", !.ids = {}, !.affected = {},
                          !.kills = @ + 1]
    /\ UNCHANGED <<photos, faces, persons, ipc>>
    /\ RecoverFrame

\* main loop, every 24th round: db.reset_stuck_processing_live(10).  The
\* photos created more than the timeout ago are those up to some id (ids
\* grow with created_at); those of them in 'processing' become 'pending'.
Sweep ==
    /\ ipc["main"] = "running"
    /\ \E k \in DOMAIN photos :
          LET old == {i \in StuckPhotos : i <= k}
          IN  /\ old # {}
              /\ photos' = ResetToPending(old)
    /\ UNCHANGED <<incoming, ipc, job_queue, faces, persons, next_face_id,
                   next_person_id, cw, updated_for>>
    /\ ClusterFrame

\* time passes: the worker has been at its photo, in status 'processing',
\* for longer than the timeout of the sweep
COverdue(w) ==
    /\ cw[w].photo # 0
    /\ cw[w].pc \notin {"idle", "check_faces", "begin"}
    /\ photos[cw[w].photo].status = "processing"
    /\ ~cw[w].overdue
    /\ cw' = [cw EXCEPT ![w].overdue = TRUE]
    /\ UNCHANGED <<incoming, photos, ipc, job_queue, faces, persons,
                   next_face_id, next_person_id, updated_for>>
    /\ ClusterFrame

NextRecover ==
    \/ \E w \in Workers : CTake(w)
    \/ \E w \in Workers : CCheckFaces(w)
    \/ \E w \in Workers : CBegin(w)
    \/ \E w \in Workers : CFail(w)
    \/ \E w \in Workers : CCreateFace(w)
    \/ \E w \in Workers : CReadPersons(w)
    \/ \E w \in Workers : CAssign(w)
    \/ \E w \in Workers : CCreatePerson(w)
    \/ \E w \in Workers : CLink(w)
    \/ \E w \in Workers : CFinish(w)
    \/ \E w \in Workers : COverdue(w)
    \/ Sweep
    \/ Crash
    \/ RecBegin
    \/ RecPerson
    \/ RecReset
    \/ RecKill

SpecRecover == ClusterInit /\ [][NextRecover]_vars

\* C11: directly after a run of the start-up recovery that was not
\* interrupted, a second run would change nothing: no Photo status, no Face
\* row and no Person row, centroid or face_count.
C11_RecoveryIdempotent ==
    (ipc["main"] = "resume" /\ rec.pc = "done" /\ rec.kills = 0)
        => RecoveredStore = Store

\* C12: when the process was killed inside the start-up recovery and the
\* recovery then ran again, the store is the one an uninterrupted recovery
\* would have left: no photo in processing, no Face rows of the recovered
\* photos, the affected Persons recomputed or deleted.
C12_RecoveryCrashAtomic ==
    (ipc["main"] = "resume" /\ rec.pc = "done" /\ rec.kills > 0)
        => Store = rec.expect



\* worker w is at work on its photo and began less than the timeout ago
FreshlyProcessing(w) ==
    /\ cw[w].photo # 0
    /\ cw[w].pc \notin {"idle", "check_faces", "begin"}
    /\ ~cw[w].overdue
    /\ photos[cw[w].photo].status = "processing"

\* C33: the periodic sweep resets to pending only photos in 'processing' for
\* longer than the timeout: a photo whose processing a live worker began less
\* than the timeout ago is never reset, however long it waited before.
C33_SweepSparesFresh ==
    [][\A w \in Workers :
          FreshlyProcessing(w) => photos'[cw[w].photo].status # "pending"]_vars

(***************************************************************************)
(* The admin read endpoints of the web server (frontend/server.py), a      *)
(* process of its own, while the workers of the engine process photos      *)
(***************************************************************************)
\* requests to the read endpoints in one behaviour
MaxAdminCalls == 2

\* GET /api/stats or /api/persons: db = get_db(), then SELECTs only.  The
\* first get_db() of the process makes the Database and runs initialize(),
\* that is _reset_stuck_processing on the store as it is.
AdminRead ==
    /\ srv.calls < MaxAdminCalls
    /\ srv' = [db |-> TRUE, calls |-> srv.calls + 1]
    /\ IF srv.db
       THEN UNCHANGED <<photos, faces, persons>>
       ELSE /\ photos' = RecoveredStore.photos
            /\ faces' = RecoveredStore.faces
            /\ persons' = RecoveredStore.persons
    /\ UNCHANGED <<coordVars, todo, icur, enrollVars, routeVars, dr, mg, ap, sd, cl>>
    /\ UNCHANGED <<incoming, ipc, job_queue, next_face_id, next_person_id, cw,
                   updated_for, resume_todo, put_log, crashes, rec>>

NextAdmin ==
    \/ \E w \in Workers : CTake(w)
    \/ \E w \in Workers : CCheckFaces(w)
    \/ \E w \in Workers : CBegin(w)
    \/ \E w \in Workers : CFail(w)
    \/ \E w \in Workers : CCreateFace(w)
    \/ \E w \in Workers : CReadPersons(w)
    \/ \E w \in Workers : CAssign(w)
    \/ \E w \in Workers : CCreatePerson(w)
    \/ \E w \in Workers : CLink(w)
    \/ \E w \in Workers : CFinish(w)
    \/ AdminRead

SpecAdmin == ClusterInit /\ [][NextAdmin]_vars

\* C25: a request to an admin read endpoint changes no Photo status and no
\* Face or Person row, also when it makes the first get_db() call of the
\* server process while workers have photos in processing.
C25_AdminReadOnly ==
    [][srv'.calls # srv.calls =>
          /\ photos' = photos
          /\ faces' = faces
          /\ persons' = persons]_vars


(***************************************************************************)
(* The phase coordination with its threads scheduled fairly                *)
(***************************************************************************)
\* the steps of one worker thread (worker_loop)
WorkerStep(w) ==
    \/ WCanProcess(w) \/ WGet(w) \/ WGetEmpty(w) \/ WStart(w) \/ WFinish(w)
    \/ WOnProcessed(w) \/ WSwitchLock(w) \/ WSwitchClear(w) \/ WSwitchSet(w)

\* the steps of the main thread's loop (worker.main)
SupervisorStep ==
    \/ SupReadStatus \/ SupReadQueue \/ SupCheckBatch \/ SupFlush
    \/ SupSwitchLock \/ SupSwitchClear \/ SupSwitchSet

\* the steps of the UploadQueue thread (_worker_loop)
DrainerStep ==
    \/ DShouldUpload \/ DFetch \/ DUploadBegin \/ DUploadEnd \/ DRebuildRaises

\* _upload_file settles the job: 'completed', or 'failed' with no retry left
DUploadSettled == DUploadEnd /\ uq_pending' < uq_pending

\* Every thread that can take a step takes one (the threads are started in
\* main() and in UploadQueueManager.start and never end before shutdown).
\* get_failed_uploads hands a job out at most upload_max_retries times, so
\* an attempt that settles the job is not put off forever.
FairPhase ==
    /\ SpecPhase
    /\ \A w \in Workers : WF_vars(WorkerStep(w))
    /\ WF_vars(SupervisorStep)
    /\ WF_vars(DrainerStep)
    /\ SF_vars(DUploadSettled)

\* the job queue is empty and no worker holds a job
WorkersIdle ==
    /\ job_queue = <<>>
    /\ \A w \in Workers : wjob[w] = 0 /\ wpc[w] \in {"loop", "get"}

\* fewer than batch_size photos are counted and nothing is left to process
SmallFinalBatch ==
    /\ phase = PROCESSING
    /\ photos_processed_in_batch > 0
    /\ photos_processed_in_batch < BatchSize
    /\ WorkersIdle

\* the upload turn for the small batch is over: every upload job is settled
\* and the coordinator is back in PROCESSING with an empty batch
BatchDrained ==
    /\ uq_pending = 0
    /\ phase = PROCESSING
    /\ photos_processed_in_batch = 0
    /\ dpc = "wait"

\* C13: a final batch smaller than batch_size, with the job queue staying
\* empty and no worker busy, is eventually flushed: the coordinator goes to
\* UPLOADING, every upload job of it is settled and the coordinator comes
\* back to PROCESSING (unless a new photo ends the idle period first).
C13_SmallBatchFlushed == SmallFinalBatch ~> (BatchDrained \/ ~WorkersIdle)


(***************************************************************************)
(* A start of the engine: the immediate scan of Watcher.start, the resume  *)
(* of the pending photos, then the workers, the periodic sweep, a kill of  *)
(* the process and the recovery of the next start (worker.main)            *)
(***************************************************************************)
\* A fresh database; one file was copied into Incoming/ before the start.
StartupInit ==
    /\ incoming = [f \in Paths |-> IF f = 1 THEN 1 ELSE 0]
    /\ photos = <<>>
    /\ put_log = <<>>
    /\ ipc = [t \in IngestThreads |-> IF t = "main" THEN "startup" ELSE "idle"]
    /\ icur = [t \in IngestThreads |-> NoFile]
    /\ todo = [t \in IngestThreads |-> {}]
    /\ resume_todo = <<>>
    /\ job_queue = <<>>
    /\ CoordIdle
    /\ faces = <<>>
    /\ persons = <<>>
    /\ next_face_id = 1
    /\ next_person_id = 1
    /\ cw = [w \in Workers |-> IdleWorker]
    /\ crashes = 0
    /\ updated_for = [i \in Paths |-> {}]
    /\ rec = RecIdle
    /\ EnrollIdle
    /\ RouteIdle
    /\ dr = IdleDrainer
    /\ cl = NoCloudCalls
    /\ sd = NotShuttingDown
    /\ ap = NoAssignCall
    /\ srv = ServerNotStarted
    /\ mg = IdleMerge

NextStartup ==
    \/ ScanBegin("main")
    \/ IngestNext("main")
    \/ IngestExists("main")
    \/ IngestCreate("main")
    \/ IngestPut("main")
    \/ IngestDone("main")
    \/ ResumeRead
    \/ ResumePut
    \/ ResumeDone
    \/ \E w \in Workers : CTake(w)
    \/ \E w \in Workers : CCheckFaces(w)
    \/ \E w \in Workers : CBegin(w)
    \/ \E w \in Workers : CFail(w)
    \/ \E w \in Workers : CCreateFace(w)
    \/ \E w \in Workers : CReadPersons(w)
    \/ \E w \in Workers : CAssign(w)
    \/ \E w \in Workers : CCreatePerson(w)
    \/ \E w \in Workers : CLink(w)
    \/ \E w \in Workers : CFinish(w)
    \/ Sweep
    \/ Crash
    \/ Recover

SpecStartup == StartupInit /\ [][NextStartup]_vars

\* status values after which the pipeline is over for a photo
TerminalStatuses == {"completed", "error", "no_faces"}

\* C14: once a Photo is completed, error or no_faces, no step of a worker, of
\* the start-up recovery, of the periodic sweep or of the resume changes its
\* status again.
C14_TerminalIsFinal ==
    [][\A i \in DOMAIN photos :
          photos[i].status \in TerminalStatuses
              => photos'[i].status = photos[i].status]_vars


(***************************************************************************)
(* worker_loop around process_single_photo, with the outcome of the        *)
(* pipeline and the status it leaves on the Photo (worker.py)              *)
(***************************************************************************)
\* how a run of the pipeline ends:
\*   process_failed  process_photo returned success = False
\*   raised          a step up to the clustering raised (outer except clause)
\*   routing_raised  route_photo or the enqueue raised (inner except clause)
\*   no_faces        no face was detected
\*   routed          the photo was routed
FailedOutcomes == {"process_failed", "raised", "routing_raised"}
Outcomes == FailedOutcomes \cup {"no_faces", "routed"}

\* the status process_single_photo writes for an outcome
StatusAfter(o) ==
    CASE o = "process_failed" -> "error"
      [] o = "raised" -> "error"
      [] o = "routing_raised" -> "completed"
      [] o = "no_faces" -> "no_faces"
      [] o = "routed" -> "completed"

\* every photo has its row before its job is put on the queue
WorkerInit ==
    /\ CoordinatorInit
    /\ job_queue = <<>>
    /\ arrived = 0
    /\ wpc = [w \in Workers |-> "loop"]
    /\ wjob = [w \in Workers |-> 0]
    /\ active = 0
    /\ spc = "sleep"
    /\ supActive = 0
    /\ dpc = "wait"
    /\ uq_pending = 0
    /\ dbatch = 0
    /\ incoming = [f \in Paths |-> 0]
    /\ photos = [i \in 1..MaxPhotos |-> PhotoRow(i, i)]
    /\ ipc = [t \in IngestThreads |-> "idle"]
    /\ icur = [t \in IngestThreads |-> NoFile]
    /\ todo = [t \in IngestThreads |-> {}]
    /\ resume_todo = <<>>
    /\ put_log = [i \in 1..MaxPhotos |-> [ingest |-> 1, resume |-> 0]]
    /\ ClusterIdle
    /\ EnrollIdle
    /\ RouteIdle
    /\ dr = IdleDrainer
    /\ cl = NoCloudCalls
    /\ sd = NotShuttingDown
    /\ ap = NoAssignCall
    /\ srv = ServerNotStarted
    /\ mg = IdleMerge

PipelineFrame ==
    /\ UNCHANGED <<phase, photos_processed_in_batch, total_batches_completed,
                   processing_allowed, uploading_allowed, job_queue, arrived,
                   wjob, spc, supActive, dpc, dbatch>>
    /\ UNCHANGED <<incoming, ipc, icur, todo, resume_todo, put_log>>
    /\ UNCHANGED <<clusterVars, enrollVars, routeVars, dr, cl, sd, ap, srv, mg>>

\* process_single_photo begins: progress.on_start(), status 'processing'
PipelineBegin(w) ==
    /\ wpc[w] = "start"
    /\ active' = active + 1
    /\ photos' = [photos EXCEPT ![wjob[w]].status = "processing"]
    /\ wpc' = [wpc EXCEPT ![w] = "processing"]
    /\ UNCHANGED uq_pending
    /\ PipelineFrame

\* the steps of the pipeline run up to their end or to the first failure;
\* the routed files of a routed photo are enqueued for upload
PipelineRun(w) ==
    /\ wpc[w] = "processing"
    /\ \E o \in Outcomes :
         /\ wpc' = [wpc EXCEPT ![w] = o]
         /\ IF o = "routed"
            THEN \E k \in 0..1 : uq_pending' = uq_pending + k
            ELSE UNCHANGED uq_pending
    /\ UNCHANGED <<active, photos>>
    /\ PipelineFrame

\* process_single_photo ends: the status is written, progress.on_complete()
PipelineEnd(w) ==
    /\ wpc[w] \in Outcomes
    /\ photos' = [photos EXCEPT ![wjob[w]].status = StatusAfter(wpc[w])]
    /\ active' = active - 1
    /\ wpc' = [wpc EXCEPT ![w] = "on_processed"]
    /\ UNCHANGED uq_pending
    /\ PipelineFrame

NextWorker ==
    \/ Arrive
    \/ \E w \in Workers : WCanProcess(w)
    \/ \E w \in Workers : WGet(w)
    \/ \E w \in Workers : WGetEmpty(w)
    \/ \E w \in Workers : PipelineBegin(w)
    \/ \E w \in Workers : PipelineRun(w)
    \/ \E w \in Workers : PipelineEnd(w)
    \/ \E w \in Workers : WOnProcessed(w)
    \/ \E w \in Workers : WSwitchLock(w)
    \/ \E w \in Workers : WSwitchClear(w)
    \/ \E w \in Workers : WSwitchSet(w)
    \/ SupReadStatus
    \/ SupReadQueue
    \/ SupCheckBatch
    \/ SupFlush
    \/ SupSwitchLock
    \/ SupSwitchClear
    \/ SupSwitchSet
    \/ DShouldUpload
    \/ DFetch
    \/ DUploadBegin
    \/ DUploadEnd
    \/ DRebuildRaises

SpecWorker == WorkerInit /\ [][NextWorker]_vars

\* C15: a worker lets go of a dequeued job only through its one call of
\* on_photo_processed, which counts the photo, whatever the pipeline did;
\* and when a step of the pipeline failed, the status left on the photo is
\* error.
C15_NotifiedOnceErrorOnFailure ==
    [][\A w \in Workers :
          /\ (wjob[w] # 0 /\ wjob'[w] # wjob[w])
                => /\ wpc[w] = "on_processed"
                   /\ photos_processed_in_batch' = photos_processed_in_batch + 1
          /\ (wpc[w] = "on_processed" /\ wpc'[w] # "on_processed")
                => wjob[w] # 0 /\ wjob'[w] = 0
          /\ (wpc[w] \in FailedOutcomes /\ wpc'[w] = "on_processed")
                => photos'[wjob[w]].status = "error"]_vars


(***************************************************************************)
(* The drain of the upload_queue table by the UploadQueue thread: the     *)
(* drain rounds of _worker_loop, _upload_file, the reset of stuck jobs, a  *)
(* kill of the process (upload_queue.py, db.py, cloud.py)                  *)
(***************************************************************************)
\* rows of the upload_queue table
MaxUploadJobs == 2
\* config.upload_max_retries (UPLOAD_MAX_RETRIES)
UploadMaxRetries == 2

\* the routed file of photo k
UploadPath(k) == RoutedPath(person_name(1), "Solo", k)

\* what cloud.upload_file makes of an upload: True, False after a transient
\* error (retry_with_backoff gave up), False after an HTTP 400/401/403/404
\* that retry_with_backoff re-raised at once
CloudResults == {"ok", "transient", "fatal"}

PathExistsUnchecked(path) == TRUE

\* Path.exists()
PathExists(path) == path \in files

UploadIds(status) == {i \in DOMAIN uploads : uploads[i].status = status}

\* the elements of a set of row ids as a list in ascending order
RECURSIVE SortedIds(_)
SortedIds(ids) ==
    IF ids = {} THEN <<>>
    ELSE LET m == CHOOSE x \in ids : \A y \in ids : x <= y
         IN  <<m>> \o SortedIds(ids \ {m})

get_pending_uploads_any_status == SortedIds(DOMAIN uploads)

\* get_pending_uploads: the rows with status 'pending', oldest first
get_pending_uploads == SortedIds(UploadIds("pending"))

get_failed_uploads_unfiltered(max_retries) == UploadIds("failed")

\* get_failed_uploads(max_retries): status 'failed' AND retry_count < max_retries
get_failed_uploads(max_retries) ==
    {i \in UploadIds("failed") : uploads[i].retry_count < max_retries}

\* an update_upload_status that never counts the attempt
update_upload_status_no_increment(row, status, error, increment_retry) ==
    [row EXCEPT !.status = status, !.last_error = error]

\* update_upload_status(upload_id, status, error, increment_retry) on a row
update_upload_status(row, status, error, increment_retry) ==
    [row EXCEPT !.status = status,
                !.last_error = error,
                !.retry_count = IF increment_retry THEN @ + 1 ELSE @]

\* the rows in 'uploading' whose updated_at is older than the stuck timeout
\* (dr.aged records which rows have grown that old)
StuckUploads == dr.aged \cap UploadIds("uploading")

\* reset_stuck_uploads: the rows in 'uploading' whose updated_at is older
\* than the timeout (the set stuck) go back to 'pending'
reset_stuck_uploads(stuck) ==
    [i \in DOMAIN uploads |->
        IF i \in stuck
        THEN [uploads[i] EXCEPT !.status = "pending",
                                !.last_error = "Reset: stuck in uploading"]
        ELSE uploads[i]]

\* The coordinator has switched to UPLOADING; the routed files of the photos
\* are in the People/ tree and the workers have not queued an upload yet.
UploadInit ==
    /\ phase = UPLOADING
    /\ photos_processed_in_batch = BatchSize
    /\ total_batches_completed = 0
    /\ processing_allowed = FALSE
    /\ uploading_allowed = TRUE
    /\ arrived = 0
    /\ wpc = [w \in Workers |-> "loop"]
    /\ wjob = [w \in Workers |-> 0]
    /\ active = 0
    /\ spc = "sleep"
    /\ supActive = 0
    /\ dpc = "wait"
    /\ uq_pending = 0
    /\ dbatch = 0
    /\ job_queue = <<>>
    /\ IngestIdle
    /\ ClusterIdle
    /\ enrollments = <<>>
    /\ folders = {person_name(1)}
    /\ uploads = <<>>
    /\ en = [e \in Enrollers |-> IdleEnroller]
    /\ files = {UploadPath(k) : k \in 1..MaxUploadJobs}
    /\ rw = [w \in Workers |-> IdleRouter]
    /\ dr = IdleDrainer
    /\ cl = NoCloudCalls
    /\ sd = NotShuttingDown
    /\ ap = NoAssignCall
    /\ srv = ServerNotStarted
    /\ mg = IdleMerge

UploadFrame == UNCHANGED notUploadVars

\* process_single_photo of a worker that took its photo before the switch:
\* upload_queue.enqueue of a routed file
UEnqueue ==
    /\ Len(uploads) < MaxUploadJobs
    /\ uploads' = Append(uploads,
                     UploadRow(Len(uploads) + 1, UploadPath(Len(uploads) + 1),
                               "pending"))
    /\ UNCHANGED <<files, dr, crashes>>
    /\ UploadFrame

\* a routed file leaves its path: rename_person_folder moves the folder of
\* the person (the rows still name the old path)
FileVanish ==
    /\ \E f \in files : files' = files \ {f}
    /\ UNCHANGED <<uploads, dr, crashes>>
    /\ UploadFrame

\* _worker_loop before its loop: _recover_stuck_uploads
UStart ==
    /\ dr.pc = "start"
    /\ uploads' = reset_stuck_uploads(StuckUploads)
    /\ dr' = [dr EXCEPT !.aged = @ \ StuckUploads, !.pc = "wait"]
    /\ UNCHANGED <<files, crashes>>
    /\ UploadFrame

\* should_upload returned True: _recover_stuck_uploads, then the drain loop
UShouldUpload ==
    /\ dr.pc = "wait"
    /\ should_upload
    /\ uploads' = reset_stuck_uploads(StuckUploads)
    /\ dr' = [dr EXCEPT !.aged = @ \ StuckUploads, !.pc = "fetch"]
    /\ UNCHANGED <<files, crashes>>
    /\ UploadFrame

\* a drain round begins: get_pending_uploads and get_failed_uploads; with
\* nothing in either list the drain loop is left.  The rows are handed on as
\* dicts, so _upload_file sees the local_path read here (dr.snap)
UFetch ==
    /\ dr.pc = "fetch"
    /\ LET pending == get_pending_uploads
           failed == get_failed_uploads(UploadMaxRetries)
       IN  dr' = [dr EXCEPT !.pending = pending,
                            !.failed = failed,
                            !.snap = [i \in DOMAIN uploads |-> uploads[i].local_path],
                            !.pc = IF pending = <<>> /\ failed = {}
                                   THEN "refresh" ELSE "pending"]
    /\ UNCHANGED <<uploads, files, crashes>>
    /\ UploadFrame

\* for upload in pending: the next job goes to _upload_file
UNextPending ==
    /\ dr.pc = "pending"
    /\ dr' = IF dr.pending = <<>>
             THEN [dr EXCEPT !.pc = "failed"]
             ELSE [dr EXCEPT !.cur = Head(dr.pending),
                             !.pending = Tail(dr.pending),
                             !.list = "pending",
                             !.pc = "check"]
    /\ UNCHANGED <<uploads, files, crashes>>
    /\ UploadFrame

\* for upload in failed: after the retry delay the next job goes to
\* _upload_file (the list is ordered by updated_at, any order here)
UNextFailed ==
    /\ dr.pc = "failed"
    /\ dr.failed # {}
    /\ \E i \in dr.failed :
          dr' = [dr EXCEPT !.cur = i, !.failed = @ \ {i}, !.list = "failed",
                           !.pc = "check"]
    /\ UNCHANGED <<uploads, files, crashes>>
    /\ UploadFrame

\* the round is over: _recover_stuck_uploads, then the next round
URoundEnd ==
    /\ dr.pc = "failed"
    /\ dr.failed = {}
    /\ uploads' = reset_stuck_uploads(StuckUploads)
    /\ dr' = [dr EXCEPT !.aged = @ \ StuckUploads, !.pc = "fetch"]
    /\ UNCHANGED <<files, crashes>>
    /\ UploadFrame

\* _upload_file, the file is gone: update_upload_status(id, 'failed',
\* 'File not found', increment_retry=False)
UMissing ==
    /\ dr.pc = "check"
    /\ ~PathExists(dr.snap[dr.cur])
    /\ uploads' = [uploads EXCEPT ![dr.cur] =
                      update_upload_status(@, "failed", "File not found", FALSE)]
    /\ dr' = [dr EXCEPT !.pc = "freeze"]
    /\ UNCHANGED <<files, crashes>>
    /\ UploadFrame

\* _upload_file, the file is gone: UPDATE upload_queue SET retry_count = max,
\* return False
UFreeze ==
    /\ dr.pc = "freeze"
    /\ uploads' = [uploads EXCEPT ![dr.cur].retry_count = UploadMaxRetries]
    /\ dr' = [dr EXCEPT !.pc = dr.list, !.cur = 0, !.gone = @ \cup {dr.cur}]
    /\ UNCHANGED <<files, crashes>>
    /\ UploadFrame

\* _upload_file, the file is there: update_upload_status(id, 'uploading')
UMark ==
    /\ dr.pc = "check"
    /\ PathExists(dr.snap[dr.cur])
    /\ uploads' = [uploads EXCEPT ![dr.cur] =
                      update_upload_status(@, "uploading", "", FALSE)]
    /\ dr' = [dr EXCEPT !.pc = "cloud", !.aged = @ \ {dr.cur}]
    /\ UNCHANGED <<files, crashes>>
    /\ UploadFrame

\* cloud.upload_file(local_path, relative_to): every exception is caught
\* inside and becomes False
UCloud ==
    /\ dr.pc = "cloud"
    /\ \E r \in CloudResults : dr' = [dr EXCEPT !.result = r, !.pc = "record"]
    /\ UNCHANGED <<uploads, files, crashes>>
    /\ UploadFrame

\* _upload_file after the upload: 'completed' on True, otherwise 'failed'
\* with "Upload returned False" and increment_retry=True
URecord ==
    /\ dr.pc = "record"
    /\ uploads' = [uploads EXCEPT ![dr.cur] =
                      IF dr.result = "ok"
                      THEN update_upload_status(@, "completed", "", FALSE)
                      ELSE update_upload_status(@, "failed",
                                                "Upload returned False", TRUE)]
    /\ dr' = [dr EXCEPT !.pc = dr.list, !.cur = 0, !.result = "",
                     !.aged = @ \ {dr.cur}]
    /\ UNCHANGED <<files, crashes>>
    /\ UploadFrame

\* after the drain loop: cloud._rebuild_service(reason=...) raises TypeError,
\* the except clause of the loop waits and the loop starts over
URebuildRaises ==
    /\ dr.pc = "refresh"
    /\ dr' = [dr EXCEPT !.pc = "wait"]
    /\ UNCHANGED <<uploads, files, crashes>>
    /\ UploadFrame

\* time passes: the updated_at of a row in 'uploading' falls behind the
\* stuck timeout (datetime('now', '-5 minutes'))
UAge ==
    /\ \E j \in UploadIds("uploading") \ dr.aged :
          dr' = [dr EXCEPT !.aged = @ \cup {j}]
    /\ UNCHANGED <<uploads, files, crashes>>
    /\ UploadFrame

\* the process is killed and started again: the thread and its locals are
\* gone, the table stays as it is
UKill ==
    /\ crashes < MaxCrashes
    /\ crashes' = crashes + 1
    /\ dr' = [IdleDrainer EXCEPT !.gone = dr.gone, !.aged = dr.aged]
    /\ UNCHANGED <<uploads, files>>
    /\ UploadFrame

NextUpload ==
    \/ UEnqueue
    \/ FileVanish
    \/ UStart
    \/ UShouldUpload
    \/ UFetch
    \/ UNextPending
    \/ UNextFailed
    \/ URoundEnd
    \/ UMissing
    \/ UFreeze
    \/ UMark
    \/ UCloud
    \/ URecord
    \/ URebuildRaises
    \/ UAge
    \/ UKill

SpecUpload == UploadInit /\ [][NextUpload]_vars

\* a step of the UploadQueue thread
UploadThreadStep ==
    \/ UStart
    \/ UShouldUpload
    \/ UFetch
    \/ UNextPending
    \/ UNextFailed
    \/ URoundEnd
    \/ UMissing
    \/ UFreeze
    \/ UMark
    \/ UCloud
    \/ URecord
    \/ URebuildRaises

\* SpecUpload with the UploadQueue thread scheduled again and again: none of
\* its statements blocks for ever (every wait has a timeout)
FairUpload == SpecUpload /\ WF_vars(UploadThreadStep)

\* C31: a drain turn terminates: with no more jobs enqueued the drainer,
\* after finitely many rounds, finds neither a pending nor a retry-eligible
\* failed job and leaves the drain loop, even when every attempt fails.
C31_DrainTerminates == (dr.pc = "fetch") ~> (dr.pc = "refresh")

\* the drain loop has been left with every job failed for good after
\* UploadMaxRetries failed attempts
C31_Witness ==
    /\ dr.pc = "refresh"
    /\ Len(uploads) = MaxUploadJobs
    /\ dr.gone = {}
    /\ \A j \in DOMAIN uploads :
          uploads[j].status = "failed" /\ uploads[j].retry_count >= UploadMaxRetries

\* the moves of the job lifecycle: pending -> uploading -> completed | failed,
\* failed -> uploading, uploading -> pending
LifecycleMoves == {<<"pending", "uploading">>, <<"failed", "uploading">>,
                   <<"uploading", "completed">>, <<"uploading", "failed">>,
                   <<"uploading", "pending">>}

\* this step leaves the status of job i alone or moves it along the lifecycle
LifecycleStep(i) ==
    \/ uploads'[i].status = uploads[i].status
    \/ /\ <<uploads[i].status, uploads'[i].status>> \in LifecycleMoves
       /\ uploads[i].status = "failed"
             => uploads[i].retry_count < UploadMaxRetries

\* this step is _upload_file marking a pending job whose file is gone as failed
MissingFileStep(i) ==
    /\ dr.pc = "check"
    /\ dr.cur = i
    /\ uploads[i].local_path \notin files
    /\ uploads[i].status = "pending"
    /\ uploads'[i].status = "failed"

\* a job handed to cloud.upload_file was not completed before
NeverResent ==
    (dr.pc = "check" /\ dr'.pc = "cloud") => uploads[dr.cur].status # "completed"

\* C17 as stated: the status of an upload job moves only pending -> uploading,
\* failed -> uploading (retry_count < max), uploading -> completed | failed,
\* uploading -> pending; completed is terminal and a completed job is never
\* passed to cloud.upload_file again.
C17_LifecycleAsStated ==
    [][/\ \A i \in DOMAIN uploads : LifecycleStep(i)
       /\ NeverResent]_vars

\* C17: the status of an upload job moves only along the lifecycle, or from
\* pending to failed when _upload_file finds the local file missing;
\* completed is terminal and a completed job is never passed to
\* cloud.upload_file again.
C17_Lifecycle ==
    [][/\ \A i \in DOMAIN uploads : LifecycleStep(i) \/ MissingFileStep(i)
       /\ NeverResent]_vars

\* a pending job whose file is gone has been marked failed, another job is
\* completed
C17_Witness ==
    /\ dr.pc = "freeze"
    /\ dr.list = "pending"
    /\ uploads[dr.cur].status = "failed"
    /\ \E i \in DOMAIN uploads : uploads[i].status = "completed"

\* this step is _upload_file recording an upload that did not succeed
FailedAttempt ==
    /\ dr.pc = "record"
    /\ dr'.pc = dr.list
    /\ dr.result # "ok"

\* job i is failed and has used up its retries
Exhausted(i) ==
    /\ uploads[i].status = "failed"
    /\ uploads[i].retry_count >= UploadMaxRetries

\* C18: a failed upload attempt sets the job to failed, records last_error
\* and adds exactly 1 to retry_count; retry_count never exceeds
\* upload_max_retries; a failed job with retry_count >= upload_max_retries is
\* never fetched for a drain round nor handed to _upload_file.
C18_RetryBounded ==
    [][/\ FailedAttempt =>
            /\ uploads'[dr.cur].status = "failed"
            /\ uploads'[dr.cur].last_error # ""
            /\ uploads'[dr.cur].retry_count = uploads[dr.cur].retry_count + 1
       /\ \A i \in DOMAIN uploads' : uploads'[i].retry_count <= UploadMaxRetries
       /\ dr.pc = "fetch" =>
            \A i \in DOMAIN uploads :
                Exhausted(i) =>
                    /\ i \notin dr'.failed
                    /\ \A k \in DOMAIN dr'.pending : dr'.pending[k] # i
       /\ \A i \in DOMAIN uploads :
            (Exhausted(i) /\ dr.cur # i) => dr'.cur # i]_vars

\* a job has failed upload_max_retries times and a later drain has ended
\* without fetching it
C18_Witness ==
    /\ dr.pc = "refresh"
    /\ \E i \in DOMAIN uploads :
          /\ Exhausted(i)
          /\ uploads[i].last_error = "Upload returned False"

\* _upload_file holds a job whose local file is gone, before or after its
\* first UPDATE
HandlingMissingFile ==
    \/ dr.pc = "check" /\ dr.snap[dr.cur] \notin files
    \/ dr.pc = "freeze"

C20_FatalFreezes ==
    [][(dr.pc = "record" /\ dr.result = "fatal" /\ dr'.pc = dr.list) =>
            /\ uploads'[dr.cur].retry_count = UploadMaxRetries
            /\ dr.cur \notin get_failed_uploads(UploadMaxRetries)']_vars


(***************************************************************************)
(* merge_persons (cluster.py): the manual merge of two Person clusters,    *)
(* statement by statement, and a kill of the process                       *)
(***************************************************************************)
\* Face rows in the store when merge_persons is called
MaxMergeFaces == 4
\* ids passed to merge_persons (one more than there are Persons)
MergeIds == 1..3

\* unit embeddings of two opposite directions
MergeEmbeddings == {<<1, 0>>, <<-1, 0>>}

\* merge_persons: the centroids weighted by face_count, divided by the total
\* count (which does not change the direction), then to unit length when
\* the norm is above 0
merged_centroid(keep, remove) ==
    Normalize([i \in 1..2 |-> keep.centroid[i] * keep.face_count
                               + remove.centroid[i] * remove.face_count])

\* the rows a DELETE of Person p would leave without their parent (foreign
\* keys of faces.person_id and enrollments.person_id, PRAGMA foreign_keys = ON)
ReferencesTo(p) ==
    FacesOfPerson(faces, p) # {}
        \/ \E k \in DOMAIN enrollments : enrollments[k].person_id = p

\* Two Persons, each with the Faces that made it, one Face per completed
\* photo: every Face has the embedding of its Person's centroid.
MergeInit ==
    /\ incoming = [f \in Paths |-> 0]
    /\ photos = [i \in 1..MaxMergeFaces |->
                    [PhotoRow(i, i) EXCEPT !.status = "completed"]]
    /\ ipc = [t \in IngestThreads |-> IF t = "main" THEN "running" ELSE "idle"]
    /\ icur = [t \in IngestThreads |-> NoFile]
    /\ todo = [t \in IngestThreads |-> {}]
    /\ resume_todo = <<>>
    /\ put_log = [i \in 1..MaxMergeFaces |-> [ingest |-> 1, resume |-> 0]]
    /\ CoordIdle
    /\ job_queue = <<>>
    /\ \E c \in [1..2 -> MergeEmbeddings], owner \in [1..MaxMergeFaces -> 1..2] :
          /\ \A p \in 1..2 : \E f \in 1..MaxMergeFaces : owner[f] = p
          /\ faces = [f \in 1..MaxMergeFaces |->
                        [photo_id |-> f, person_id |-> owner[f],
                         embedding |-> c[owner[f]]]]
          /\ persons = [p \in 1..2 |->
                          [name |-> person_name(p), centroid |-> c[p],
                           face_count |-> Cardinality({f \in 1..MaxMergeFaces :
                                                         owner[f] = p})]]
    /\ next_face_id = MaxMergeFaces + 1
    /\ next_person_id = 3
    /\ cw = [w \in Workers |-> IdleWorker]
    /\ crashes = 0
    /\ updated_for = <<>>
    /\ rec = RecIdle
    /\ EnrollIdle
    /\ RouteIdle
    /\ dr = IdleDrainer
    /\ cl = NoCloudCalls
    /\ sd = NotShuttingDown
    /\ ap = NoAssignCall
    /\ srv = ServerNotStarted
    /\ mg = IdleMerge

MergeFrame ==
    UNCHANGED <<phaseVars, ingestVars, next_face_id, next_person_id, cw,
                updated_for, rec, enrollVars, routeVars, dr, srv, ap, sd, cl>>

\* merge_persons(keep, remove): the two get_person_by_id; False when one is
\* missing, otherwise total_count and the new centroid are computed
MStart ==
    /\ mg.pc = "idle"
    /\ \E keep \in MergeIds, remove \in MergeIds :
          mg' = IF keep \in DOMAIN persons /\ remove \in DOMAIN persons
                THEN [pc |-> "update", keep |-> keep, remove |-> remove,
                      total |-> persons[keep].face_count + persons[remove].face_count,
                      centroid |-> merged_centroid(persons[keep], persons[remove]),
                      before |-> [persons |-> persons, faces |-> faces]]
                ELSE [IdleMerge EXCEPT !.pc = "returned", !.keep = keep,
                                       !.remove = remove,
                                       !.before = [persons |-> persons, faces |-> faces]]
    /\ UNCHANGED <<persons, faces, crashes>>
    /\ MergeFrame

\* db.update_person_centroid(person_id_keep, new_centroid, total_count)
MUpdateKeep ==
    /\ mg.pc = "update"
    /\ persons' = IF mg.keep \in DOMAIN persons
                  THEN [persons EXCEPT ![mg.keep].centroid = mg.centroid,
                                       ![mg.keep].face_count = mg.total]
                  ELSE persons
    /\ mg' = [mg EXCEPT !.pc = "reassign"]
    /\ UNCHANGED <<faces, crashes>>
    /\ MergeFrame

\* UPDATE faces SET person_id = keep WHERE person_id = remove
MReassign ==
    /\ mg.pc = "reassign"
    /\ faces' = [f \in DOMAIN faces |->
                    IF faces[f].person_id = mg.remove
                    THEN [faces[f] EXCEPT !.person_id = mg.keep]
                    ELSE faces[f]]
    /\ mg' = [mg EXCEPT !.pc = "delete"]
    /\ UNCHANGED <<persons, crashes>>
    /\ MergeFrame

\* DELETE FROM persons WHERE id = remove; the statement raises
\* IntegrityError while a row still references the Person
MDelete ==
    /\ mg.pc = "delete"
    /\ IF ReferencesTo(mg.remove)
       THEN /\ mg' = [mg EXCEPT !.pc = "raised"]
            /\ UNCHANGED persons
       ELSE /\ persons' = [p \in DOMAIN persons \ {mg.remove} |-> persons[p]]
            /\ mg' = [mg EXCEPT !.pc = "returned"]
    /\ UNCHANGED <<faces, crashes>>
    /\ MergeFrame

\* the process is killed inside merge_persons: what the statements wrote
\* so far stays in the store
MKill ==
    /\ mg.pc \in {"update", "reassign", "delete"}
    /\ crashes < MaxCrashes
    /\ crashes' = crashes + 1
    /\ mg' = [mg EXCEPT !.pc = "killed"]
    /\ UNCHANGED <<persons, faces>>
    /\ MergeFrame

NextMerge ==
    \/ MStart
    \/ MUpdateKeep
    \/ MReassign
    \/ MDelete
    \/ MKill

SpecMerge == MergeInit /\ [][NextMerge]_vars

\* the store is as it was when merge_persons was called
MergeNothingChanged ==
    /\ persons = mg.before.persons
    /\ faces = mg.before.faces

\* the merge is complete: the Faces of both Persons belong to the kept one,
\* its face_count is the sum of both counts, the removed Person is gone
MergeDone ==
    /\ mg.remove \notin DOMAIN persons
    /\ mg.keep \in DOMAIN persons
    /\ FacesOfPerson(faces, mg.keep) =
          FacesOfPerson(mg.before.faces, mg.keep)
              \cup FacesOfPerson(mg.before.faces, mg.remove)
    /\ persons[mg.keep].face_count =
          mg.before.persons[mg.keep].face_count
              + mg.before.persons[mg.remove].face_count

\* C22: merge_persons is atomic: every state it passes through or that a
\* kill leaves behind has either nothing changed or the merge complete.
C22_MergeAtomic ==
    mg.pc # "idle" => MergeNothingChanged \/ MergeDone

\* C28: in every reachable state every Person's centroid has unit length,
\* also after a merge whose weighted mean is the zero vector.
C28_UnitCentroids ==
    \A p \in DOMAIN persons : Norm(persons[p].centroid) = 1


(***************************************************************************)
(* assign_person (cluster.py) called on its own, with no other writer of   *)
(* the persons table, on stores and embeddings drawn from small sets       *)
(***************************************************************************)
\* Person rows in the store before the call
MaxAssignPersons == 2
\* face_count of a Person before the call
MaxAssignCount == 2

\* embeddings handed to assign_person: unit vectors, one that is not of unit
\* length, the zero vector
AssignEmbeddings == {<<1, 0>>, <<0, 1>>, <<-1, 0>>, <<2, 0>>, <<0, 0>>}
\* the threshold argument, in tenths: the default and the distance of
\* orthogonal vectors
AssignThresholds == {ClusterThreshold10, 10}

AssignPersonRows ==
    [name : {person_name(1)}, centroid : Embeddings, face_count : 1..MaxAssignCount]

\* assign_person(embedding, threshold) on the persons table ps whose next
\* AUTOINCREMENT id is next: the id it returns and the table it leaves
assign_person(embedding, threshold, ps, next) ==
    LET e == Normalize(embedding)
        p == find_nearest_person(e, ps)
    IN  IF p # 0 /\ cosine_distance(e, ps[p].centroid) < threshold
        THEN [person |-> p,
              persons |-> [ps EXCEPT
                             ![p].centroid = update_centroid(ps[p].centroid, e,
                                                             ps[p].face_count),
                             ![p].face_count = ps[p].face_count + 1]]
        ELSE [person |-> next,
              persons |-> ps @@ (next :>
                             [name |-> person_name(MaxOf(DOMAIN ps) + 1),
                              centroid |-> e, face_count |-> 1])]

\* A store with up to MaxAssignPersons Persons and no call made yet.
AssignInit ==
    /\ IngestIdle
    /\ CoordIdle
    /\ job_queue = <<>>
    /\ faces = <<>>
    /\ \E n \in 0..MaxAssignPersons : \E rows \in [1..n -> AssignPersonRows] :
          /\ persons = [p \in 1..n |->
                          [rows[p] EXCEPT !.name = person_name(p)]]
          /\ next_person_id = n + 1
    /\ next_face_id = 1
    /\ cw = [w \in Workers |-> IdleWorker]
    /\ crashes = 0
    /\ updated_for = <<>>
    /\ rec = RecIdle
    /\ EnrollIdle
    /\ RouteIdle
    /\ dr = IdleDrainer
    /\ cl = NoCloudCalls
    /\ sd = NotShuttingDown
    /\ mg = IdleMerge
    /\ srv = ServerNotStarted
    /\ ap = NoAssignCall

\* one call of assign_person from its first to its last statement
AssignCall ==
    /\ ap.pc = "idle"
    /\ \E embedding \in AssignEmbeddings, threshold \in AssignThresholds :
          LET r == assign_person(embedding, threshold, persons, next_person_id)
          IN  /\ persons' = r.persons
              /\ next_person_id' = IF r.person = next_person_id
                                   THEN next_person_id + 1 ELSE next_person_id
              /\ ap' = [pc |-> "returned", embedding |-> embedding,
                        threshold |-> threshold, before |-> persons,
                        result |-> r.person]
    /\ UNCHANGED <<phaseVars, ingestVars, faces, next_face_id, cw, crashes,
                   updated_for, rec, enrollVars, routeVars, dr, mg, srv, sd, cl>>

NextAssign == AssignCall

SpecAssign == AssignInit /\ [][NextAssign]_vars

\* the distance of the call's embedding to the centroid Person p had
AssignDistance(p) == cosine_distance(ap.embedding, ap.before[p].centroid)

\* the Persons at the smallest distance before the call
AssignNearest ==
    {p \in DOMAIN ap.before :
        \A q \in DOMAIN ap.before : AssignDistance(p) <= AssignDistance(q)}

\* C26: assign_person assigns the embedding to the Person at the smallest
\* cosine distance, the smallest id among equals, exactly when that distance
\* is strictly below the threshold: that Person's face_count grows by 1 and
\* no Person is created.  Otherwise (also with no Person at all) exactly one
\* new Person with face_count 1 is created and its id returned.
C26_AssignNearestOrCreate ==
    ap.pc = "returned" =>
        IF \E p \in AssignNearest : AssignDistance(p) < ap.threshold
        THEN /\ ap.result \in AssignNearest
             /\ \A q \in AssignNearest : ap.result <= q
             /\ DOMAIN persons = DOMAIN ap.before
             /\ persons[ap.result].face_count = ap.before[ap.result].face_count + 1
             /\ \A q \in DOMAIN persons \ {ap.result} : persons[q] = ap.before[q]
        ELSE /\ ap.result \notin DOMAIN ap.before
             /\ DOMAIN persons = DOMAIN ap.before \cup {ap.result}
             /\ persons[ap.result].face_count = 1
             /\ \A q \in DOMAIN ap.before : persons[q] = ap.before[q]

\* a call with two Persons at the same smallest distance below the threshold
\* has returned, and so has a call at exactly the threshold
C26_Witness ==
    /\ ap.pc = "returned"
    /\ Cardinality(AssignNearest) = 2
    /\ \A p \in AssignNearest : AssignDistance(p) < ap.threshold
    /\ ap.result = 1

\* a call whose smallest distance equals the threshold has created a Person
C26_WitnessBoundary ==
    /\ ap.pc = "returned"
    /\ \E p \in AssignNearest : AssignDistance(p) = ap.threshold
    /\ ap.result \notin DOMAIN ap.before


(***************************************************************************)
(* The shutdown: the signal handler sets shutdown_event, main() leaves its *)
(* loop and stops the watcher, the upload queue (_stop_event) and the      *)
(* workers (poison pills); worker_loop and the drainer's _worker_loop with *)
(* their tests of the two events (worker.py, upload_queue.py)              *)
(***************************************************************************)
\* the None that main() puts on the job queue for each worker
PoisonPill == 0

\* _upload_file is at work on dr.cur
InUploadFile == dr.pc \in {"check", "cloud", "record"}

ShutdownInit ==
    /\ CoordinatorInit
    /\ job_queue = <<>>
    /\ arrived = 0
    /\ wpc = [w \in Workers |-> "loop"]
    /\ wjob = [w \in Workers |-> 0]
    /\ active = 0
    /\ spc = "sleep"
    /\ supActive = 0
    /\ dpc = "wait"
    /\ uq_pending = 0
    /\ dbatch = 0
    /\ IngestIdle
    /\ ClusterIdle
    /\ enrollments = <<>>
    /\ folders = {person_name(1)}
    /\ uploads = <<>>
    /\ en = [e \in Enrollers |-> IdleEnroller]
    /\ files = {UploadPath(k) : k \in 1..MaxPhotos}
    /\ rw = [w \in Workers |-> IdleRouter]
    /\ dr = IdleDrainer
    /\ cl = NoCloudCalls
    /\ mg = IdleMerge
    /\ srv = ServerNotStarted
    /\ ap = NoAssignCall
    /\ sd = NotShuttingDown

\* what a step of worker_loop outside process_single_photo leaves alone
LoopFrame ==
    /\ UNCHANGED notPhaseVars
    /\ UNCHANGED <<phase, photos_processed_in_batch, total_batches_completed,
                   processing_allowed, uploading_allowed, arrived, active,
                   spc, supActive, dpc, uq_pending, dbatch>>

\* the watcher, until watcher.stop(), puts a new photo on the job queue
SArrive ==
    /\ sd.mpc \in {"loop", "stop_watcher"}
    /\ Arrive

\* while not shutdown_event.is_set()
SWhile(w) ==
    /\ wpc[w] = "loop"
    /\ wpc' = [wpc EXCEPT ![w] = IF sd.shutdown_event THEN "exited" ELSE "can"]
    /\ UNCHANGED <<job_queue, wjob>>
    /\ LoopFrame

\* if not coordinator.can_process(timeout=1.0): continue
SCanProcess(w) ==
    /\ wpc[w] = "can"
    /\ wpc' = [wpc EXCEPT ![w] = IF can_process THEN "get" ELSE "loop"]
    /\ UNCHANGED <<job_queue, wjob>>
    /\ LoopFrame

\* job = job_queue.get(timeout=1.0) returned; if job is None: break
SGet(w) ==
    /\ wpc[w] = "get"
    /\ job_queue # <<>>
    /\ job_queue' = Tail(job_queue)
    /\ IF Head(job_queue) = PoisonPill
       THEN /\ wpc' = [wpc EXCEPT ![w] = "exited"]
            /\ UNCHANGED wjob
       ELSE /\ wpc' = [wpc EXCEPT ![w] = "processing"]
            /\ wjob' = [wjob EXCEPT ![w] = Head(job_queue)]
    /\ LoopFrame

\* process_single_photo (its routed file, if any, is enqueued for upload),
\* coordinator.on_photo_processed() with the switch to UPLOADING of a full
\* batch, job_queue.task_done()
SProcess(w) ==
    /\ wpc[w] = "processing"
    /\ \/ UNCHANGED uploads
       \/ /\ Len(uploads) < MaxUploadJobs
          /\ uploads' = Append(uploads,
                           UploadRow(wjob[w], UploadPath(wjob[w]), "pending"))
    /\ on_photo_processed_lock
    /\ IF photos_processed_in_batch' >= BatchSize /\ SwitchLocked
       THEN /\ switch_to_uploading_lock
            /\ switch_to_uploading_clear
            /\ switch_to_uploading_set
       ELSE UNCHANGED <<phase, processing_allowed, uploading_allowed>>
    /\ wjob' = [wjob EXCEPT ![w] = 0]
    /\ wpc' = [wpc EXCEPT ![w] = "loop"]
    /\ sd' = [sd EXCEPT !.finished[w] = IF sd.shutdown_event THEN @ + 1 ELSE @]
    /\ UNCHANGED <<total_batches_completed, job_queue, arrived, active, spc,
                   supActive, dpc, uq_pending, dbatch>>
    /\ UNCHANGED <<ingestVars, clusterVars, enrollments, folders, en,
                   routeVars, dr, mg, srv, ap, cl>>

\* what a step of main() or of the signal handler leaves alone
MainFrame ==
    /\ UNCHANGED <<phase, photos_processed_in_batch, total_batches_completed,
                   processing_allowed, uploading_allowed, arrived, wpc, wjob,
                   active, spc, supActive, dpc, uq_pending, dbatch>>
    /\ UNCHANGED <<ingestVars, clusterVars, enrollVars, routeVars, dr, mg,
                   srv, ap, cl>>

\* SIGINT or SIGTERM: signal_handler sets shutdown_event
MSignal ==
    /\ ~sd.shutdown_event
    /\ sd' = [sd EXCEPT !.shutdown_event = TRUE,
                        !.uploads_at_signal = uploads,
                        !.cur_at_signal = IF InUploadFile THEN dr.cur ELSE 0]
    /\ UNCHANGED job_queue
    /\ MainFrame

\* main(): time.sleep(5) is over and the loop test finds shutdown_event set;
\* the finally block begins
MLeaveLoop ==
    /\ sd.mpc = "loop"
    /\ sd.shutdown_event
    /\ sd' = [sd EXCEPT !.mpc = "stop_watcher"]
    /\ UNCHANGED job_queue
    /\ MainFrame

\* watcher.stop()
MStopWatcher ==
    /\ sd.mpc = "stop_watcher"
    /\ sd' = [sd EXCEPT !.mpc = "stop_uploads"]
    /\ UNCHANGED job_queue
    /\ MainFrame

\* upload_queue.stop(): self._stop_event.set(), then the join
MStopUploads ==
    /\ sd.mpc = "stop_uploads"
    /\ sd' = [sd EXCEPT !.stop_event = TRUE, !.mpc = "pills"]
    /\ UNCHANGED job_queue
    /\ MainFrame

\* for _ in range(config.worker_count): job_queue.put(None)
MPills ==
    /\ sd.mpc = "pills"
    /\ job_queue' = job_queue \o [w \in Workers |-> PoisonPill]
    /\ sd' = [sd EXCEPT !.mpc = "wait"]
    /\ MainFrame

\* while not self._stop_event.is_set(), the outer loop: left when set
SDExit ==
    /\ dr.pc = "wait"
    /\ sd.stop_event
    /\ dr' = [dr EXCEPT !.pc = "exited"]
    /\ UNCHANGED <<uploads, files, crashes>>
    /\ UploadFrame

\* the outer loop goes on: should_upload returned True
SDShouldUpload ==
    /\ ~sd.stop_event
    /\ UShouldUpload

\* while not self._stop_event.is_set(), the drain loop: a round begins
SDFetch ==
    /\ ~sd.stop_event
    /\ UFetch

\* the drain loop is left because _stop_event is set
SDFetchStopped ==
    /\ dr.pc = "fetch"
    /\ sd.stop_event
    /\ dr' = [dr EXCEPT !.pc = "refresh"]
    /\ UNCHANGED <<uploads, files, crashes>>
    /\ UploadFrame

\* for upload in pending: if self._stop_event.is_set(): break
SDNextPending ==
    /\ ~sd.stop_event \/ dr.pending = <<>>
    /\ UNextPending

SDPendingBreak ==
    /\ dr.pc = "pending"
    /\ dr.pending # <<>>
    /\ sd.stop_event
    /\ dr' = [dr EXCEPT !.pc = "failed", !.pending = <<>>]
    /\ UNCHANGED <<uploads, files, crashes>>
    /\ UploadFrame

\* for upload in failed: the test of _stop_event, the retry delay on
\* _stop_event.wait, the test again
SDNextFailed ==
    /\ ~sd.stop_event
    /\ UNextFailed

\* the break out of the retries, then _recover_stuck_uploads
SDFailedBreak ==
    /\ dr.pc = "failed"
    /\ dr.failed # {}
    /\ sd.stop_event
    /\ uploads' = reset_stuck_uploads(StuckUploads)
    /\ dr' = [dr EXCEPT !.aged = @ \ StuckUploads, !.pc = "fetch", !.failed = {}]
    /\ UNCHANGED <<files, crashes>>
    /\ UploadFrame

NextShutdown ==
    \/ SArrive
    \/ \E w \in Workers : SWhile(w)
    \/ \E w \in Workers : SCanProcess(w)
    \/ \E w \in Workers : SGet(w)
    \/ \E w \in Workers : WGetEmpty(w)
    \/ \E w \in Workers : SProcess(w)
    \/ MSignal
    \/ MLeaveLoop
    \/ MStopWatcher
    \/ MStopUploads
    \/ MPills
    \/ UStart
    \/ SDExit
    \/ SDShouldUpload
    \/ SDFetch
    \/ SDFetchStopped
    \/ SDNextPending
    \/ SDPendingBreak
    \/ SDNextFailed
    \/ SDFailedBreak
    \/ URoundEnd
    \/ UMark
    \/ UCloud
    \/ URecord
    \/ URebuildRaises

SpecShutdown == ShutdownInit /\ [][NextShutdown]_vars

\* the upload jobs handed to _upload_file since the signal, the one in flight
\* when it came left out
BegunAfterSignal ==
    {j \in DOMAIN uploads \ {sd.cur_at_signal} :
        \/ InUploadFile /\ dr.cur = j
        \/ j \in DOMAIN sd.uploads_at_signal /\ uploads[j] # sd.uploads_at_signal[j]
        \/ j \notin DOMAIN sd.uploads_at_signal
              /\ uploads[j] # UploadRow(uploads[j].photo_id, uploads[j].local_path,
                                        "pending")}

\* after the signal a worker finishes at most one photo
WorkersStop == \A w \in Workers : sd.finished[w] <= 1

\* after the signal the drainer goes on with at most the job it was about to
\* take when the signal came
DrainerStops == sd.shutdown_event => Cardinality(BegunAfterSignal) <= 1

\* C27: after the shutdown signal every worker leaves its loop after at most
\* the photo it is processing, the drainer starts no new upload after the one
\* in flight and exits, and the upload jobs not attempted stay pending.
C27_ShutdownStopsWork == WorkersStop /\ DrainerStops


(***************************************************************************)
(* A start of the engine after a crash that left an upload job in status   *)
(* 'uploading': the fresh coordinator, the workers, the supervisor's idle  *)
(* flush and the UploadQueue thread (worker.py, phase.py, upload_queue.py) *)
(***************************************************************************)
\* the photo whose upload the crash interrupted
StuckPhotoId == MaxPhotos + 1

RestartInit ==
    /\ CoordinatorInit
    /\ job_queue = <<>>
    /\ arrived = 0
    /\ wpc = [w \in Workers |-> "loop"]
    /\ wjob = [w \in Workers |-> 0]
    /\ active = 0
    /\ spc = "sleep"
    /\ supActive = 0
    /\ dpc = "wait"
    /\ uq_pending = 0
    /\ dbatch = 0
    /\ IngestIdle
    /\ ClusterIdle
    /\ enrollments = <<>>
    /\ folders = {person_name(1)}
    /\ uploads = <<UploadRow(StuckPhotoId, UploadPath(StuckPhotoId), "uploading")>>
    /\ en = [e \in Enrollers |-> IdleEnroller]
    /\ files = {UploadPath(k) : k \in 1..StuckPhotoId}
    /\ rw = [w \in Workers |-> IdleRouter]
    /\ dr = IdleDrainer
    /\ cl = NoCloudCalls
    /\ mg = IdleMerge
    /\ srv = ServerNotStarted
    /\ ap = NoAssignCall
    /\ sd = NotShuttingDown

\* a step of worker w in worker_loop
RestartWorkerStep(w) ==
    SWhile(w) \/ SCanProcess(w) \/ SGet(w) \/ WGetEmpty(w) \/ SProcess(w)

\* a step of the supervisor's main loop
RestartSupStep ==
    \/ SupReadStatus
    \/ SupReadQueue
    \/ SupCheckBatch
    \/ SupFlush
    \/ SupSwitchLock
    \/ SupSwitchClear
    \/ SupSwitchSet

\* a step of the UploadQueue thread
RestartDrainStep ==
    \/ UStart
    \/ UShouldUpload
    \/ UFetch
    \/ UNextPending
    \/ UNextFailed
    \/ URoundEnd
    \/ UMark
    \/ UCloud
    \/ URecord
    \/ URebuildRaises

NextRestart ==
    \/ Arrive
    \/ \E w \in Workers : RestartWorkerStep(w)
    \/ RestartSupStep
    \/ RestartDrainStep
    \/ UAge

SpecRestart == RestartInit /\ [][NextRestart]_vars

\* every thread goes on taking its steps and time goes on; photos arrive or
\* do not
FairRestart ==
    /\ SpecRestart
    /\ \A w \in Workers : WF_vars(RestartWorkerStep(w))
    /\ WF_vars(RestartSupStep)
    /\ WF_vars(RestartDrainStep)
    /\ WF_vars(UAge)

\* job j is in 'uploading' and _upload_file is not at work on it
LeftUploading(j) ==
    /\ j \in DOMAIN uploads
    /\ uploads[j].status = "uploading"
    /\ ~(InUploadFile /\ dr.cur = j)

\* C32: an upload job left in status uploading by a crash or a hang is in
\* the end reset to pending and attempted again, also when no further photos
\* arrive after the restart.
C32_StuckUploadRetried ==
    \A j \in 1..MaxUploadJobs :
        LeftUploading(j) ~> (InUploadFile /\ dr.cur = j)


(***************************************************************************)
(* CloudManager.ensure_folder_path called by the threads of the engine     *)
(* (the workers through ensure_person_folders, the UploadQueue thread      *)
(* through upload_file): cache, per-path locks, find-or-create (cloud.py)  *)
(***************************************************************************)
\* ensure_folder_path calls per thread
MaxCloudCalls == 2

\* the path_parts of the calls
CloudTargets == {<<"People", "A">>, <<"People", "B">>}

\* one lock for every path
one_lock_for_all(path) == <<>>

\* _get_path_lock(path): the key of the lock in _path_locks
get_path_lock(path) == path

\* current_path_str of caller c: the first idx parts
CurrentPath(c) == SubSeq(cl.t[c].parts, 1, cl.t[c].idx)

\* the caller goes on after the part at idx: the next part, or the return
AfterPart(c) ==
    IF cl.t[c].idx = Len(cl.t[c].parts)
    THEN [cl.t[c] EXCEPT !.pc = "idle", !.parts = <<>>, !.idx = 0]
    ELSE [cl.t[c] EXCEPT !.pc = "part", !.idx = @ + 1]

\* return None
GiveUp(c) == [cl.t[c] EXCEPT !.pc = "idle", !.parts = <<>>, !.idx = 0]

CloudInit ==
    /\ CoordIdle
    /\ job_queue = <<>>
    /\ IngestIdle
    /\ ClusterIdle
    /\ EnrollIdle
    /\ RouteIdle
    /\ dr = IdleDrainer
    /\ cl = NoCloudCalls
    /\ sd = NotShuttingDown
    /\ mg = IdleMerge
    /\ srv = ServerNotStarted
    /\ ap = NoAssignCall

CloudFrame ==
    UNCHANGED <<phaseVars, ingestVars, clusterVars, enrollVars, routeVars, dr,
                mg, srv, ap, sd>>

\* ensure_folder_path(path_parts): the check of the whole path in the cache
KCall(c) ==
    /\ cl.t[c].pc = "idle"
    /\ cl.t[c].calls < MaxCloudCalls
    /\ \E parts \in CloudTargets :
          cl' = [cl EXCEPT !.t[c] =
                    IF parts \in cl.cache
                    THEN [@ EXCEPT !.calls = @ + 1]
                    ELSE [pc |-> "part", parts |-> parts, idx |-> 1,
                          calls |-> cl.t[c].calls + 1]]
    /\ CloudFrame

\* for part in path_parts: the quick cache check without the lock
KPart(c) ==
    /\ cl.t[c].pc = "part"
    /\ cl' = [cl EXCEPT !.t[c] = IF CurrentPath(c) \in cl.cache
                                 THEN AfterPart(c)
                                 ELSE [@ EXCEPT !.pc = "acquire"]]
    /\ CloudFrame

\* path_lock = self._get_path_lock(current_path_str); path_lock.acquire
KAcquire(c) ==
    /\ cl.t[c].pc = "acquire"
    /\ ~ \E h \in cl.held : h[1] = get_path_lock(CurrentPath(c))
    /\ cl' = [cl EXCEPT !.held = @ \cup {<<get_path_lock(CurrentPath(c)), c>>},
                        !.t[c].pc = "locked"]
    /\ CloudFrame

\* acquire(timeout=60) returned False: return None
KAcquireTimeout(c) ==
    /\ cl.t[c].pc = "acquire"
    /\ \E h \in cl.held : h[1] = get_path_lock(CurrentPath(c))
    /\ cl' = [cl EXCEPT !.t[c] = GiveUp(c)]
    /\ CloudFrame

\* the double check of the cache under the lock; a hit releases the lock
\* (finally) and goes on with the next part
KDoubleCheck(c) ==
    /\ cl.t[c].pc = "locked"
    /\ IF CurrentPath(c) \in cl.cache
       THEN cl' = [cl EXCEPT !.held = @ \ {<<get_path_lock(CurrentPath(c)), c>>},
                             !.t[c] = AfterPart(c)]
       ELSE cl' = [cl EXCEPT !.t[c].pc = "find"]
    /\ CloudFrame

\* folder_id = self._find_folder(part, current_parent_id)
KFind(c) ==
    /\ cl.t[c].pc = "find"
    /\ cl' = [cl EXCEPT !.t[c].pc =
                 IF \E k \in DOMAIN cl.created : cl.created[k] = CurrentPath(c)
                 THEN "update" ELSE "create"]
    /\ CloudFrame

\* folder_id = self._create_folder(part, current_parent_id): the folder is
\* made, or the call fails and ensure_folder_path returns None (finally
\* releases the lock)
KCreate(c) ==
    /\ cl.t[c].pc = "create"
    /\ \/ cl' = [cl EXCEPT !.created = Append(@, CurrentPath(c)),
                           !.t[c].pc = "update"]
       \/ cl' = [cl EXCEPT !.held = @ \ {<<get_path_lock(CurrentPath(c)), c>>},
                           !.t[c] = GiveUp(c)]
    /\ CloudFrame

\* with self._folder_lock: self._folder_cache[current_path_str] = folder_id
KUpdate(c) ==
    /\ cl.t[c].pc = "update"
    /\ cl' = [cl EXCEPT !.cache = @ \cup {CurrentPath(c)},
                        !.t[c].pc = "release"]
    /\ CloudFrame

\* finally: path_lock.release()
KRelease(c) ==
    /\ cl.t[c].pc = "release"
    /\ cl' = [cl EXCEPT !.held = @ \ {<<get_path_lock(CurrentPath(c)), c>>},
                        !.t[c] = AfterPart(c)]
    /\ CloudFrame

NextCloud ==
    \/ \E c \in CloudThreads : KCall(c)
    \/ \E c \in CloudThreads : KPart(c)
    \/ \E c \in CloudThreads : KAcquire(c)
    \/ \E c \in CloudThreads : KAcquireTimeout(c)
    \/ \E c \in CloudThreads : KDoubleCheck(c)
    \/ \E c \in CloudThreads : KFind(c)
    \/ \E c \in CloudThreads : KCreate(c)
    \/ \E c \in CloudThreads : KUpdate(c)
    \/ \E c \in CloudThreads : KRelease(c)

SpecCloud == CloudInit /\ [][NextCloud]_vars

\* caller c is inside the find-or-create of its current path
InFindOrCreate(c) == cl.t[c].pc \in {"locked", "find", "create", "update", "release"}

\* C34: however concurrent ensure_folder_path calls interleave, each remote
\* folder path is created at most once (the find-or-create of one path is
\* mutually exclusive), and a call is never blocked by a call that is working
\* on a different path.
C34_FolderCreatedOnce ==
    /\ \A j, k \in DOMAIN cl.created : cl.created[j] = cl.created[k] => j = k
    /\ \A c, d \in CloudThreads :
          (c # d /\ InFindOrCreate(c) /\ InFindOrCreate(d))
              => CurrentPath(c) # CurrentPath(d)
    /\ \A c, d \in CloudThreads :
          (cl.t[c].pc = "acquire" /\ InFindOrCreate(d)
                /\ <<get_path_lock(CurrentPath(c)), d>> \in cl.held)
              => CurrentPath(d) = CurrentPath(c)

\* two callers met at the same missing path: one created it, the other
\* waits for the lock the first still holds
C34_Witness ==
    \E c, d \in CloudThreads :
        /\ cl.t[c].pc = "release"
        /\ cl.t[d].pc = "acquire"
        /\ CurrentPath(c) = CurrentPath(d)
        /\ Len(CurrentPath(c)) = 2
        /\ Len(cl.created) = 2


(***************************************************************************)
(* PhaseCoordinator used as its class comment prescribes: the upload loop  *)
(* calls on_uploads_complete() when its drain is over ("if                 *)
(* coordinator.should_upload(): upload_all_pending();                      *)
(* coordinator.on_uploads_complete()").  The workers, the supervisor and   *)
(* the drain are those of SpecPhase; only the end of the drain turn        *)
(* differs, where the three steps of on_uploads_complete are taken.        *)
(***************************************************************************)
\* on_uploads_complete, the part under the lock
DCompleteLock ==
    /\ dpc = "complete"
    /\ on_uploads_complete_lock
    /\ dpc' = "dc_clear"
    /\ UNCHANGED notPhaseVars
    /\ UNCHANGED <<processing_allowed, uploading_allowed, job_queue, arrived,
                   wpc, wjob, active, spc, supActive, uq_pending, dbatch>>

\* on_uploads_complete, after the lock: self._uploading_allowed.clear()
DCompleteClear ==
    /\ dpc = "dc_clear"
    /\ on_uploads_complete_clear
    /\ dpc' = "dc_set"
    /\ UNCHANGED notPhaseVars
    /\ UNCHANGED <<phase, photos_processed_in_batch, total_batches_completed,
                   processing_allowed, job_queue, arrived, wpc, wjob, active,
                   spc, supActive, uq_pending, dbatch>>

\* on_uploads_complete, after the lock: self._processing_allowed.set()
DCompleteSet ==
    /\ dpc = "dc_set"
    /\ on_uploads_complete_set
    /\ dpc' = "wait"
    /\ UNCHANGED notPhaseVars
    /\ UNCHANGED <<phase, photos_processed_in_batch, total_batches_completed,
                   uploading_allowed, job_queue, arrived, wpc, wjob, active,
                   spc, supActive, uq_pending, dbatch>>

NextCoord ==
    \/ Arrive
    \/ \E w \in Workers : WCanProcess(w)
    \/ \E w \in Workers : WGet(w)
    \/ \E w \in Workers : WGetEmpty(w)
    \/ \E w \in Workers : WStart(w)
    \/ \E w \in Workers : WFinish(w)
    \/ \E w \in Workers : WOnProcessed(w)
    \/ \E w \in Workers : WSwitchLock(w)
    \/ \E w \in Workers : WSwitchClear(w)
    \/ \E w \in Workers : WSwitchSet(w)
    \/ SupReadStatus
    \/ SupReadQueue
    \/ SupCheckBatch
    \/ SupFlush
    \/ SupSwitchLock
    \/ SupSwitchClear
    \/ SupSwitchSet
    \/ DShouldUpload
    \/ DFetch
    \/ DUploadBegin
    \/ DUploadEnd
    \/ DCompleteLock
    \/ DCompleteClear
    \/ DCompleteSet

SpecCoord == PhaseInit /\ [][NextCoord]_vars

\* no thread is inside on_photo_processed, flush_if_needed,
\* _switch_to_uploading or on_uploads_complete
NoCoordinatorCall ==
    /\ \A w \in Workers : wpc[w] \notin {"switch", "sw_clear", "sw_set"}
    /\ spc \notin {"switch", "sw_clear", "sw_set"}
    /\ dpc \notin {"dc_clear", "dc_set"}

WFinishNoQueue(w) ==
    /\ wpc[w] = "processing"
    /\ active' = active - 1
    /\ wpc' = [wpc EXCEPT ![w] = "on_processed"]
    /\ UNCHANGED notPhaseVars
    /\ UNCHANGED <<phase, photos_processed_in_batch, total_batches_completed,
                   processing_allowed, uploading_allowed, job_queue, arrived,
                   wjob, spc, supActive, dpc, uq_pending, dbatch>>

\* the steps of one worker thread
NoUploadWorkerStep(w) ==
    \/ WCanProcess(w) \/ WGet(w) \/ WGetEmpty(w) \/ WStart(w)
    \/ WFinishNoQueue(w) \/ WOnProcessed(w) \/ WSwitchLock(w)
    \/ WSwitchClear(w) \/ WSwitchSet(w)

NextNoUpload ==
    \/ Arrive
    \/ \E w \in Workers : WCanProcess(w)
    \/ \E w \in Workers : WGet(w)
    \/ \E w \in Workers : WGetEmpty(w)
    \/ \E w \in Workers : WStart(w)
    \/ \E w \in Workers : WFinishNoQueue(w)
    \/ \E w \in Workers : WOnProcessed(w)
    \/ \E w \in Workers : WSwitchLock(w)
    \/ \E w \in Workers : WSwitchClear(w)
    \/ \E w \in Workers : WSwitchSet(w)
    \/ SupReadStatus
    \/ SupReadQueue
    \/ SupCheckBatch
    \/ SupFlush
    \/ SupSwitchLock
    \/ SupSwitchClear
    \/ SupSwitchSet

SpecNoUpload == PhaseInit /\ [][NextNoUpload]_vars

\* The worker threads and the main thread run until shutdown, so each takes
\* a step whenever it can; the watcher owes nothing (a photo may never come).
FairNoUpload ==
    /\ SpecNoUpload
    /\ \A w \in Workers : WF_vars(NoUploadWorkerStep(w))
    /\ WF_vars(SupervisorStep)

\* photo p was handed to process_single_photo and came back
Processed(p) == \E w \in Workers : wjob[w] = p /\ wpc[w] = "on_processed"

\* C36: with the UploadQueue thread not started, every job put on the job
\* queue is eventually processed.
C36_NoUploaderNoBlock ==
    \A p \in 1..MaxPhotos :
        (\E i \in DOMAIN job_queue : job_queue[i] = p) ~> Processed(p)


(***************************************************************************)
(* The drain of the upload queue while an enrollment renames the folder of *)
(* the Person: the UploadQueue thread of SpecUpload and enroll_user of     *)
(* SpecEnroll on one database and one People/ tree.                        *)
(***************************************************************************)
\* The coordinator has switched to UPLOADING; the routed copies of
\* MaxUploadJobs photos of the first Person are in the People/ tree and
\* their upload jobs are pending.
DrainRenameInit ==
    /\ phase = UPLOADING
    /\ photos_processed_in_batch = BatchSize
    /\ total_batches_completed = 0
    /\ processing_allowed = FALSE
    /\ uploading_allowed = TRUE
    /\ arrived = 0
    /\ wpc = [w \in Workers |-> "loop"]
    /\ wjob = [w \in Workers |-> 0]
    /\ active = 0
    /\ spc = "sleep"
    /\ supActive = 0
    /\ dpc = "wait"
    /\ uq_pending = 0
    /\ dbatch = 0
    /\ job_queue = <<>>
    /\ IngestIdle
    /\ faces = [k \in 1..MaxUploadJobs |->
                   [photo_id |-> k, person_id |-> 1, embedding |-> <<1, 0>>]]
    /\ persons = <<[name |-> person_name(1), centroid |-> <<1, 0>>,
                    face_count |-> MaxUploadJobs]>>
    /\ next_face_id = MaxUploadJobs + 1
    /\ next_person_id = 2
    /\ cw = [w \in Workers |-> IdleWorker]
    /\ crashes = 0
    /\ updated_for = <<>>
    /\ rec = RecIdle
    /\ enrollments = <<>>
    /\ folders = {person_name(1)}
    /\ uploads = [k \in 1..MaxUploadJobs |-> UploadRow(k, UploadPath(k), "pending")]
    /\ en = [e \in Enrollers |-> IdleEnroller]
    /\ files = {UploadPath(k) : k \in 1..MaxUploadJobs}
    /\ rw = [w \in Workers |-> IdleRouter]
    /\ dr = IdleDrainer
    /\ cl = NoCloudCalls
    /\ sd = NotShuttingDown
    /\ ap = NoAssignCall
    /\ srv = ServerNotStarted
    /\ mg = IdleMerge

NextDrainRename ==
    \/ UStart
    \/ UShouldUpload
    \/ UFetch
    \/ UNextPending
    \/ UNextFailed
    \/ URoundEnd
    \/ UMissing
    \/ UFreeze
    \/ UMark
    \/ UCloud
    \/ URecord
    \/ URebuildRaises
    \/ \E e \in RenameCallers, n \in RenameNames, f \in Embeddings : EStart(e, n, f)
    \/ \E e \in RenameCallers : ECheck(e)
    \/ \E e \in RenameCallers : ERenameRead(e)
    \/ \E e \in RenameCallers : EMove(e)
    \/ \E e \in RenameCallers : ERenameDb(e)
    \/ \E e \in RenameCallers : EPaths(e)
    \/ \E e \in RenameCallers : ECreate(e)

SpecDrainRename == DrainRenameInit /\ [][NextDrainRename]_vars

\* the routed copy of the photo of job j, under the folder the Person row
\* names now
CurrentFile(j) == RoutedPath(persons[1].name, "Solo", uploads[j].photo_id)

\* C40: an upload job whose file exists under the Person's current folder
\* is never frozen as 'File not found': when _upload_file marks a job so
\* and no rename is under way, the routed copy is not in the folder the
\* Person row names.
C40_NoFalseFileNotFound ==
    [][\A j \in DOMAIN uploads :
          (/\ uploads'[j].last_error = "File not found"
           /\ uploads[j].last_error # "File not found"
           /\ \A e \in Enrollers : en[e].pc \in {"idle", "done"})
              => CurrentFile(j) \notin files]_vars

=============================================================================
